---- MODULE Spec2Model ----
(***************************************************************************)
(* A model of the front end of `just`: the recursive-descent parser        *)
(* (src/src/parser.rs), the builtin function registry (src/src/function.rs) *)
(* and the fallback retry loop of Subcommand::run (src/src/subcommand.rs).  *)
(*                                                                         *)
(* The parser is modelled as the Rust code is written: a Parser record     *)
(* {tokens, next, expected, depth} threaded through one operator per       *)
(* method.  Every fallible method returns [p |-> parser, v |-> value]; the  *)
(* `?` operator of the source is the test Failed(r.p) that follows a call.  *)
(* A token is [kind, lexeme]; its position is its index in the stream.      *)
(***************************************************************************)
EXTENDS Integers, Sequences, FiniteSets, TLC

VARIABLES
  tokens,   \* the token slice handed to Parser::parse
  pc,       \* "lex": the stream is being produced; "lexed": it is complete;
            \* "loop": inside the loop of parse_ast; "returned": parse is over
  lexed,    \* how many phrases the lexer has emitted
  parser,   \* the Parser: tokens, next, expected, depth (and the error of a
            \* failed call)
  items,    \* `items` of parse_ast
  eol_since_last_comment,   \* the flag of that name of parse_ast
  result,   \* what Parser::parse returned: "Ok", "Err", "" before
  context,  \* the FunctionContext builtin functions are called with
  process,  \* what the process holds outside it: environment variables,
            \* the path of the executable, the state of the random source
  evaluated,  \* the builtin calls made so far, each with its result
  config,   \* the Config of Subcommand::run: unstable, search_config, ...
  justfiles,  \* the justfile each directory holds, from the root down
  run_pc,   \* "start": run is called; "loop": in its retry loop; "done"
  path,     \* `path` of Subcommand::run
  unknown_recipes_errors,   \* the Option of that name of Subcommand::run
  searched, \* the directories Search::find_next was called on, in order
  attempted,  \* the directories whose justfile run_inner was called on
  returned  \* what Subcommand::run returned

parseVars ==
  <<tokens, lexed, pc, parser, items, eol_since_last_comment, result>>

evalVars == <<context, process, evaluated>>

runVars ==
  <<config, justfiles, run_pc, path, unknown_recipes_errors, searched,
    attempted, returned>>

vars == <<parseVars, evalVars, runVars>>

----------------------------------------------------------------------------
(* Tokens *)

Token(kind, lexeme) == [kind |-> kind, lexeme |-> lexeme]

Id(lexeme) == Token("Identifier", lexeme)
Tok(kind) == Token(kind, kind)

None == [type |-> "None"]

\* CompileError: the kind, the index of the token it is positioned at, and
\* the payload fields of the CompileErrorKind variants the parser produces.
NoError == [kind |-> "None", at |-> 0, expected |-> {}, found |-> "",
            name |-> "", count |-> 0, min |-> 0, max |-> 0]

CompileError(kind, at) == [NoError EXCEPT !.kind = kind, !.at = at]

Ret(p, v) == [p |-> p, v |-> v]

Failed(p) == p.err.kind # "None"

\* Parser::new.  frames, maxFrames and missed are history fields: the number
\* of parse_expression / parse_conditional activations now on the call stack,
\* the largest number there has been, and the token kinds a lookahead test
\* asked for and did not find since the last token was consumed.
Parser_new(toks) ==
  [tokens |-> toks, next |-> 0, expected |-> {}, depth |-> 0,
   err |-> NoError, frames |-> 0, maxFrames |-> 0, missed |-> {}]

Fail(p, e) == [p EXCEPT !.err = e]

----------------------------------------------------------------------------
(* Cursor primitives *)

\* Parser::rest without its filter: the next token, significant or not.
SigFrom_AnyToken(toks, i) == IF i > Len(toks) THEN 0 ELSE i

RECURSIVE SigFrom(_, _)
\* Index of the first token at or after i that is not Whitespace, 0 if none.
SigFrom(toks, i) ==
  IF i > Len(toks) THEN 0
  ELSE IF toks[i].kind # "Whitespace" THEN i
  ELSE SigFrom(toks, i + 1)

RECURSIVE MatchKinds(_, _, _, _)
\* The loop of next_are over Parser::rest: the significant tokens from index
\* i on have the kinds kinds[k..], one by one.
MatchKinds(toks, i, kinds, k) ==
  IF k > Len(kinds) THEN TRUE
  ELSE \E j \in {SigFrom(toks, i)} :
         /\ j # 0
         /\ toks[j].kind = kinds[k]
         /\ MatchKinds(toks, j + 1, kinds, k + 1)

\* `let x = e;` followed by the rest of a method: Let([x \in {e} |-> rest])
\* is `rest` with x bound to the value of e.
Let(binding) == binding[CHOOSE x \in DOMAIN binding : TRUE]

\* Parser::next: the index of the next significant token.  When none is left
\* the source builds an internal error through Parser::error, which calls
\* Parser::next again; the model reports that as the error kind "Internal"
\* positioned at no token (at = 0).
next(p) ==
  Let([i \in {SigFrom(p.tokens, p.next + 1)} |->
  IF i # 0 THEN Ret(p, i)
  ELSE Ret(Fail(p, CompileError("Internal", 0)), 0)])

\* Parser::error
error(p, kind) ==
  Let([n \in {next(p)} |->
  IF Failed(n.p) THEN n.p ELSE Fail(p, CompileError(kind, n.v))])

\* Parser::unexpected_token
unexpected_token(p) ==
  Let([n \in {next(p)} |->
  IF Failed(n.p) THEN n.p
  ELSE Fail(p, [CompileError("UnexpectedToken", n.v) EXCEPT
                  !.expected = p.expected \ {"ByteOrderMark"},
                  !.found = p.tokens[n.v].kind])])

\* Parser::internal_error
internal_error(p) == error(p, "Internal")

\* Parser::next_are: the first kind joins the expected set, whether the test
\* succeeds or not; the cursor stays.
next_are(p, kinds) ==
  Let([found \in {MatchKinds(p.tokens, p.next + 1, kinds, 1)} |->
  Ret(IF Len(kinds) > 0
      THEN [p EXCEPT !.expected = @ \cup {kinds[1]},
                     !.missed = IF found THEN @ ELSE @ \cup {kinds[1]}]
      ELSE p,
      found)])

\* Parser::next_is
next_is(p, kind) == next_are(p, <<kind>>)

\* Parser::advance: clears the expected set and steps past one significant
\* token; v is the index of the token stepped past.
advance(p) ==
  Let([i \in {SigFrom(p.tokens, p.next + 1)} |->
  IF i # 0 THEN Ret([p EXCEPT !.expected = {}, !.missed = {}, !.next = i], i)
  ELSE Ret(internal_error([p EXCEPT !.expected = {}, !.missed = {},
                                    !.next = Len(p.tokens)]), 0)])

\* Parser::accept: v is the index of the accepted token, 0 for None.
accept(p, kind) ==
  Let([t \in {next_is(p, kind)} |->
  IF t.v THEN advance(t.p) ELSE Ret(t.p, 0)])

\* Parser::accepted
accepted(p, kind) ==
  Let([a \in {accept(p, kind)} |-> Ret(a.p, a.v # 0)])

\* Parser::expect
expect(p, kind) ==
  Let([a \in {accept(p, kind)} |->
  IF Failed(a.p) \/ a.v # 0 THEN a
  ELSE Ret(unexpected_token(a.p), 0)])

expect_eol_ConsumingEof(p) ==
  Let([a \in {accept(p, "Comment")} |->
  IF Failed(a.p) THEN a.p ELSE
  Let([e \in {accepted(a.p, "Eof")} |->
  IF e.v THEN e.p ELSE expect(e.p, "Eol").p])])

\* Parser::expect_eol
expect_eol(p) ==
  Let([a \in {accept(p, "Comment")} |->
  IF Failed(a.p) THEN a.p ELSE
  Let([e \in {next_is(a.p, "Eof")} |->
  IF e.v THEN e.p ELSE expect(e.p, "Eol").p])])

\* Parser::expect_keyword
expect_keyword(p, keyword) ==
  Let([a \in {advance(p)} |->
  IF Failed(a.p) THEN a.p
  ELSE IF /\ a.p.tokens[a.v].kind = "Identifier"
          /\ a.p.tokens[a.v].lexeme = keyword
  THEN a.p
  ELSE Fail(a.p, [CompileError("ExpectedKeyword", a.v) EXCEPT
                    !.expected = {keyword},
                    !.found = a.p.tokens[a.v].kind])])

\* Parser::presume_keyword
presume_keyword(p, keyword) ==
  Let([a \in {advance(p)} |->
  IF Failed(a.p) THEN a.p
  ELSE IF a.p.tokens[a.v].kind # "Identifier" THEN internal_error(a.p)
  ELSE IF a.p.tokens[a.v].lexeme = keyword THEN a.p
  ELSE internal_error(a.p)])

\* Parser::presume_any
presume_any(p, kinds) ==
  Let([a \in {advance(p)} |->
  IF Failed(a.p) THEN a
  ELSE IF a.p.tokens[a.v].kind \in kinds THEN a
  ELSE Ret(internal_error(a.p), 0)])

\* Parser::presume
presume(p, kind) == presume_any(p, {kind})

\* Parser::forbid, with the error the one caller passes
\* (ParameterFollowsVariadicParameter naming the forbidden token).
forbid(p, forbidden) ==
  Let([n \in {next(p)} |->
  IF Failed(n.p) THEN n.p
  ELSE IF p.tokens[n.v].kind = forbidden
  THEN Fail(p, [CompileError("ParameterFollowsVariadicParameter", n.v)
                  EXCEPT !.name = p.tokens[n.v].lexeme])
  ELSE p])

\* Parser::parse_name: v is the index of the identifier token.
parse_name(p) == expect(p, "Identifier")

\* Parser::accept_name
accept_name(p) ==
  Let([t \in {next_is(p, "Identifier")} |->
  IF t.v THEN parse_name(t.p) ELSE Ret(t.p, 0)])

\* Parser::accepted_keyword
accepted_keyword(p, keyword) ==
  Let([n \in {next(p)} |->
  IF Failed(n.p) THEN Ret(n.p, FALSE)
  ELSE IF /\ p.tokens[n.v].kind = "Identifier"
          /\ p.tokens[n.v].lexeme = keyword
  THEN Let([a \in {advance(p)} |-> Ret(a.p, ~Failed(a.p))])
  ELSE Ret(p, FALSE)])

Name(p, i) == p.tokens[i].lexeme

----------------------------------------------------------------------------
(* Keywords, string kinds and the function registry *)

\* Keyword::from_lexeme: the keyword a lexeme spells, None for any other.
Keywords ==
  {"alias", "allow-duplicate-recipes", "dotenv-load", "else", "export",
   "fallback", "false", "if", "ignore-comments", "positional-arguments",
   "set", "shell", "tempdir", "true", "windows-powershell", "windows-shell"}

Keyword_from_lexeme(lexeme) == IF lexeme \in Keywords THEN lexeme ELSE "None"

\* The Function enum: one arity class per builtin name (function::get).
Functions ==
  [absolute_path |-> "Unary", arch |-> "Nullary", capitalize |-> "Unary",
   clean |-> "Unary", env_var |-> "Unary", env_var_or_default |-> "Binary",
   error |-> "Unary", extension |-> "Unary", file_name |-> "Unary",
   file_stem |-> "Unary", invocation_directory |-> "Nullary",
   join |-> "BinaryPlus", just_executable |-> "Nullary",
   justfile |-> "Nullary", justfile_directory |-> "Nullary",
   kebabcase |-> "Unary", lowercamelcase |-> "Unary", lowercase |-> "Unary",
   os |-> "Nullary", os_family |-> "Nullary", parent_directory |-> "Unary",
   path_exists |-> "Unary", quote |-> "Unary", replace |-> "Ternary",
   replace_regex |-> "Ternary", sha256 |-> "Unary", sha256_file |-> "Unary",
   shoutykebabcase |-> "Unary", shoutysnakecase |-> "Unary",
   snakecase |-> "Unary", titlecase |-> "Unary", trim |-> "Unary",
   trim_end |-> "Unary", trim_end_match |-> "Binary",
   trim_end_matches |-> "Binary", trim_start |-> "Unary",
   trim_start_match |-> "Binary", trim_start_matches |-> "Binary",
   uppercamelcase |-> "Unary", uppercase |-> "Unary", uuid |-> "Nullary",
   without_extension |-> "Unary"]

\* function::get
get(name) == IF name \in DOMAIN Functions THEN Functions[name] ELSE "None"

\* usize::MAX, the open end of the BinaryPlus range.  The model holds it as
\* the largest integer TLC represents; no argument list comes near either.
UsizeMax == 2147483647

Function_argc_BinaryUpTo3(class) ==
  CASE class = "Nullary"    -> [min |-> 0, max |-> 0]
    [] class = "Unary"      -> [min |-> 1, max |-> 1]
    [] class = "Binary"     -> [min |-> 2, max |-> 3]
    [] class = "BinaryPlus" -> [min |-> 2, max |-> UsizeMax]
    [] class = "Ternary"    -> [min |-> 3, max |-> 3]

\* Function::argc: the range min..max of accepted argument counts.
Function_argc(class) ==
  CASE class = "Nullary"    -> [min |-> 0, max |-> 0]
    [] class = "Unary"      -> [min |-> 1, max |-> 1]
    [] class = "Binary"     -> [min |-> 2, max |-> 2]
    [] class = "BinaryPlus" -> [min |-> 2, max |-> UsizeMax]
    [] class = "Ternary"    -> [min |-> 3, max |-> 3]

\* Thunk::resolve: the call of `name` (token index i) with `arguments`, or
\* UnknownFunction / FunctionArgumentCountMismatch positioned at the name.
Thunk_resolve(p, i, arguments) ==
  Let([class \in {get(Name(p, i))} |->
  IF class = "None"
  THEN Ret(Fail(p, [CompileError("UnknownFunction", i) EXCEPT
                      !.name = Name(p, i)]), None)
  ELSE
  Let([argc \in {Function_argc(class)} |->
  IF Len(arguments) < argc.min \/ Len(arguments) > argc.max
  THEN Ret(Fail(p, [CompileError("FunctionArgumentCountMismatch", i) EXCEPT
                      !.name = Name(p, i), !.count = Len(arguments),
                      !.min = argc.min, !.max = argc.max]), None)
  ELSE Ret(p, [type |-> "Call", name |-> Name(p, i),
               arguments |-> arguments])])])

\* A string or backtick lexeme is its sequence of characters.
StartsWith(s, prefix) ==
  /\ Len(s) >= Len(prefix)
  /\ SubSeq(s, 1, Len(prefix)) = prefix

\* Characters are named by strings: letters by themselves, the others by
\* these names.
Q2 == "DQUOTE"
Q1 == "QUOTE"
BT == "BACKTICK"
BS == "BACKSLASH"
NL == "NEWLINE"
CR == "RETURN"
TAB == "TAB"
SP == "SPACE"

\* StringKind::from_token_start: the first of the six kinds, in the order of
\* StringKind::ALL, whose delimiter starts the lexeme.
StringKind_from_token_start(lexeme) ==
  CASE StartsWith(lexeme, <<BT, BT, BT>>) -> [delimiter |-> "Backtick", indented |-> TRUE]
    [] StartsWith(lexeme, <<BT>>)         -> [delimiter |-> "Backtick", indented |-> FALSE]
    [] StartsWith(lexeme, <<Q2, Q2, Q2>>) -> [delimiter |-> "QuoteDouble", indented |-> TRUE]
    [] StartsWith(lexeme, <<Q2>>)         -> [delimiter |-> "QuoteDouble", indented |-> FALSE]
    [] StartsWith(lexeme, <<Q1, Q1, Q1>>) -> [delimiter |-> "QuoteSingle", indented |-> TRUE]
    [] StartsWith(lexeme, <<Q1>>)         -> [delimiter |-> "QuoteSingle", indented |-> FALSE]
    [] OTHER -> [delimiter |-> "None", indented |-> FALSE]

\* StringKind::delimiter_len
delimiter_len(kind) == IF kind.indented THEN 3 ELSE 1

\* StringKind::processes_escape_sequences
processes_escape_sequences(kind) == kind.delimiter = "QuoteDouble"

\* The contents between the delimiters of a lexeme.
Contents(lexeme, kind) ==
  SubSeq(lexeme, delimiter_len(kind) + 1, Len(lexeme) - delimiter_len(kind))

----------------------------------------------------------------------------
(* unindent and string literals *)

IsBlankChar(c) == c \in {SP, TAB, CR, NL}

\* unindent::blank
blank(line) == \A i \in 1..Len(line) : IsBlankChar(line[i])

RECURSIVE SplitLines(_, _, _)
\* The lines of a text, each with its line ending: a line ends after a
\* NEWLINE or at the last character.
SplitLines(text, start, i) ==
  IF i > Len(text) THEN <<>>
  ELSE IF text[i] = NL \/ i = Len(text)
       THEN <<SubSeq(text, start, i)>> \o SplitLines(text, i + 1, i + 1)
       ELSE SplitLines(text, start, i + 1)

RECURSIVE IndentLen(_, _)
\* unindent::indentation: the number of leading spaces and tabs of a line.
IndentLen(line, i) ==
  IF i <= Len(line) /\ line[i] \in {SP, TAB} THEN IndentLen(line, i + 1)
  ELSE i - 1

indentation(line) == SubSeq(line, 1, IndentLen(line, 1))

RECURSIVE CommonLen(_, _, _)
CommonLen(a, b, i) ==
  IF i <= Len(a) /\ i <= Len(b) /\ a[i] = b[i] THEN CommonLen(a, b, i + 1)
  ELSE i - 1

\* unindent::common: the longest common prefix.
common(a, b) == SubSeq(a, 1, CommonLen(a, b, 1))

RECURSIVE CommonIndentation(_, _, _, _)
\* The fold over the indentation of the non-blank lines (have: some line has
\* been folded in); the empty indentation when every line is blank.
CommonIndentation(lines, i, have, acc) ==
  IF i > Len(lines) THEN acc
  ELSE IF blank(lines[i]) THEN CommonIndentation(lines, i + 1, have, acc)
  ELSE CommonIndentation(lines, i + 1, TRUE,
         IF have THEN common(acc, indentation(lines[i]))
         ELSE indentation(lines[i]))

RECURSIVE Replacements(_, _, _)
Replacements(lines, i, n) ==
  IF i > Len(lines) THEN <<>>
  ELSE (IF blank(lines[i])
        THEN (IF i # 1 /\ i # Len(lines) THEN <<NL>> ELSE <<>>)
        ELSE SubSeq(lines[i], n + 1, Len(lines[i])))
       \o Replacements(lines, i + 1, n)

\* unindent: strips the common indentation of the non-blank lines; a blank
\* line becomes a bare newline, and nothing when it is the first or the last.
unindent(text) ==
  Let([lines \in {SplitLines(text, 1, 1)} |->
  Let([common_indentation \in {CommonIndentation(lines, 1, FALSE, <<>>)} |->
  Replacements(lines, 1, Len(common_indentation))])])

RECURSIVE Cook_KeepingLineBreak(_, _, _, _)
\* The escape loop, were an escaped newline to stand for a newline.
Cook_KeepingLineBreak(s, i, escape, cooked) ==
  IF i > Len(s) THEN [ok |-> TRUE, cooked |-> cooked, character |-> ""]
  ELSE IF escape
  THEN CASE s[i] = "n" -> Cook_KeepingLineBreak(s, i + 1, FALSE, Append(cooked, NL))
         [] s[i] = "r" -> Cook_KeepingLineBreak(s, i + 1, FALSE, Append(cooked, CR))
         [] s[i] = "t" -> Cook_KeepingLineBreak(s, i + 1, FALSE, Append(cooked, TAB))
         [] s[i] = BS  -> Cook_KeepingLineBreak(s, i + 1, FALSE, Append(cooked, BS))
         [] s[i] = NL  -> Cook_KeepingLineBreak(s, i + 1, FALSE, Append(cooked, NL))
         [] s[i] = Q2  -> Cook_KeepingLineBreak(s, i + 1, FALSE, Append(cooked, Q2))
         [] OTHER      -> [ok |-> FALSE, cooked |-> cooked,
                           character |-> s[i]]
  ELSE IF s[i] = BS THEN Cook_KeepingLineBreak(s, i + 1, TRUE, cooked)
  ELSE Cook_KeepingLineBreak(s, i + 1, FALSE, Append(cooked, s[i]))

RECURSIVE Cook(_, _, _, _)
\* The escape loop of parse_string_literal over the characters from i on:
\* [ok, cooked] or [ok |-> FALSE, character |-> the invalid escape].
Cook(s, i, escape, cooked) ==
  IF i > Len(s) THEN [ok |-> TRUE, cooked |-> cooked, character |-> ""]
  ELSE IF escape
  THEN CASE s[i] = "n" -> Cook(s, i + 1, FALSE, Append(cooked, NL))
         [] s[i] = "r" -> Cook(s, i + 1, FALSE, Append(cooked, CR))
         [] s[i] = "t" -> Cook(s, i + 1, FALSE, Append(cooked, TAB))
         [] s[i] = BS  -> Cook(s, i + 1, FALSE, Append(cooked, BS))
         [] s[i] = NL  -> Cook(s, i + 1, FALSE, cooked)
         [] s[i] = Q2  -> Cook(s, i + 1, FALSE, Append(cooked, Q2))
         [] OTHER      -> [ok |-> FALSE, cooked |-> cooked,
                           character |-> s[i]]
  ELSE IF s[i] = BS THEN Cook(s, i + 1, TRUE, cooked)
  ELSE Cook(s, i + 1, FALSE, Append(cooked, s[i]))

\* parse_string_literal, were the escapes processed before unindenting.
parse_string_literal_CookedThenUnindented(p) ==
  Let([t \in {expect(p, "StringToken")} |->
  IF Failed(t.p) THEN Ret(t.p, None) ELSE
  Let([kind \in {StringKind_from_token_start(t.p.tokens[t.v].lexeme)} |->
  IF kind.delimiter = "None"
  THEN Ret(Fail(t.p, CompileError("Internal", t.v)), None)
  ELSE
  Let([raw \in {Contents(t.p.tokens[t.v].lexeme, kind)} |->
  IF ~processes_escape_sequences(kind)
  THEN Ret(t.p, [kind |-> kind, raw |-> raw,
                 cooked |-> IF kind.indented THEN unindent(raw) ELSE raw])
  ELSE
  Let([c \in {Cook(raw, 1, FALSE, <<>>)} |->
  IF c.ok
  THEN Ret(t.p, [kind |-> kind, raw |-> raw,
                 cooked |-> IF kind.indented THEN unindent(c.cooked)
                            ELSE c.cooked])
  ELSE Ret(Fail(t.p, [CompileError("InvalidEscapeSequence", t.v)
                        EXCEPT !.name = c.character]), None)])])])])

\* Parser::parse_string_literal: v is the StringLiteral {kind, raw, cooked}.
parse_string_literal(p) ==
  Let([t \in {expect(p, "StringToken")} |->
  IF Failed(t.p) THEN Ret(t.p, None) ELSE
  Let([kind \in {StringKind_from_token_start(t.p.tokens[t.v].lexeme)} |->
  IF kind.delimiter = "None"
  THEN Ret(Fail(t.p, CompileError("Internal", t.v)), None)
  ELSE
  Let([raw \in {Contents(t.p.tokens[t.v].lexeme, kind)} |->
  Let([unindented \in {IF kind.indented THEN unindent(raw) ELSE raw} |->
  IF ~processes_escape_sequences(kind)
  THEN Ret(t.p, [kind |-> kind, raw |-> raw, cooked |-> unindented])
  ELSE
  Let([c \in {Cook(unindented, 1, FALSE, <<>>)} |->
  IF c.ok
  THEN Ret(t.p, [kind |-> kind, raw |-> raw, cooked |-> c.cooked])
  ELSE Ret(Fail(t.p, [CompileError("InvalidEscapeSequence", t.v)
                        EXCEPT !.name = c.character]), None)])])])])])

----------------------------------------------------------------------------
(* Expressions *)

\* The recursion ceiling of parse_expression: 256 in the source (48 on
\* Windows).  The model scales it down, keeping every comparison with it;
\* the parses it explores nest to a depth beyond this ceiling.
RecursionLimit == 4

Max(a, b) == IF a >= b THEN a ELSE b

\* A parse_expression or parse_conditional activation begins / returns.
PushFrame(p) ==
  [p EXCEPT !.frames = @ + 1, !.maxFrames = Max(@, p.frames + 1)]

PopFrame(p) == [p EXCEPT !.frames = @ - 1]

Variable(name) == [type |-> "Variable", name |-> name]
Group(contents) == [type |-> "Group", contents |-> contents]
Join(lhs, rhs) == [type |-> "Join", lhs |-> lhs, rhs |-> rhs]
Concatenation(lhs, rhs) == [type |-> "Concatenation", lhs |-> lhs, rhs |-> rhs]
Conditional(lhs, operator, rhs, then, otherwise) ==
  [type |-> "Conditional", lhs |-> lhs, operator |-> operator, rhs |-> rhs,
   then |-> then, otherwise |-> otherwise]

RECURSIVE parse_expression(_)
RECURSIVE parse_conditional(_)
RECURSIVE parse_value(_)
RECURSIVE parse_sequence_elements(_, _)

\* Parser::parse_sequence: `(`, comma-separated expressions, `)`.
parse_sequence(p) ==
  Let([o \in {presume(p, "ParenL")} |->
  IF Failed(o.p) THEN Ret(o.p, <<>>) ELSE
  Let([es \in {parse_sequence_elements(o.p, <<>>)} |->
  IF Failed(es.p) THEN es
  ELSE Ret(expect(es.p, "ParenR").p, es.v)])])

\* The while loop of parse_sequence.
parse_sequence_elements(p, elements) ==
  Let([t \in {next_is(p, "ParenR")} |->
  IF t.v THEN Ret(t.p, elements) ELSE
  Let([e \in {parse_expression(t.p)} |->
  IF Failed(e.p) THEN Ret(e.p, elements) ELSE
  Let([c \in {accepted(e.p, "Comma")} |->
  IF Failed(c.p) \/ ~c.v THEN Ret(c.p, Append(elements, e.v))
  ELSE parse_sequence_elements(c.p, Append(elements, e.v))])])])

\* The Backtick arm of parse_value.
parse_backtick(p) ==
  Let([n \in {next(p)} |->
  IF Failed(n.p) THEN Ret(n.p, None) ELSE
  Let([kind \in {StringKind_from_token_start(p.tokens[n.v].lexeme)} |->
  IF kind.delimiter = "None"
  THEN Ret(Fail(p, CompileError("Internal", n.v)), None)
  ELSE
  Let([raw \in {Contents(p.tokens[n.v].lexeme, kind)} |->
  Let([a \in {advance(p)} |->
  IF Failed(a.p) THEN Ret(a.p, None) ELSE
  Let([contents \in {IF kind.indented THEN unindent(raw) ELSE raw} |->
  IF StartsWith(contents, <<"#", "!">>)
  THEN Ret(Fail(a.p, CompileError("BacktickShebang", n.v)), None)
  ELSE Ret(a.p, [type |-> "Backtick", contents |-> contents,
                 token |-> a.v])])])])])])

\* The Identifier arm of parse_value: a call or a variable.
parse_call_or_variable(p) ==
  Let([name \in {parse_name(p)} |->
  IF Failed(name.p) THEN Ret(name.p, None) ELSE
  Let([o \in {next_is(name.p, "ParenL")} |->
  IF ~o.v THEN Ret(o.p, Variable(Name(o.p, name.v))) ELSE
  Let([arguments \in {parse_sequence(o.p)} |->
  IF Failed(arguments.p) THEN Ret(arguments.p, None)
  ELSE Thunk_resolve(arguments.p, name.v, arguments.v)])])])

\* The ParenL arm of parse_value: `(` expression `)`.
parse_group(p) ==
  Let([o \in {presume(p, "ParenL")} |->
  IF Failed(o.p) THEN Ret(o.p, None) ELSE
  Let([contents \in {parse_expression(o.p)} |->
  IF Failed(contents.p) THEN Ret(contents.p, None)
  ELSE Ret(expect(contents.p, "ParenR").p, Group(contents.v))])])

\* Parser::parse_value
parse_value(p) ==
  Let([s \in {next_is(p, "StringToken")} |->
  IF s.v
  THEN Let([l \in {parse_string_literal(s.p)} |->
       Ret(l.p, [type |-> "StringLiteral", string_literal |-> l.v])])
  ELSE
  Let([b \in {next_is(s.p, "Backtick")} |->
  IF b.v THEN parse_backtick(b.p) ELSE
  Let([i \in {next_is(b.p, "Identifier")} |->
  IF i.v THEN parse_call_or_variable(i.p) ELSE
  Let([g \in {next_is(i.p, "ParenL")} |->
  IF g.v THEN parse_group(g.p)
  ELSE Ret(unexpected_token(g.p), None)])])])])

\* The body of parse_expression after `self.depth += 1`, up to the value of
\* `expression`.
parse_expression_body(p) ==
  Let([k \in {accepted_keyword(p, "if")} |->
  IF Failed(k.p) THEN Ret(k.p, None)
  ELSE IF k.v THEN parse_conditional(k.p)
  ELSE
  Let([s \in {accepted(k.p, "Slash")} |->
  IF Failed(s.p) THEN Ret(s.p, None)
  ELSE IF s.v
  THEN Let([rhs \in {parse_expression(s.p)} |->
       Ret(rhs.p, Join(None, rhs.v))])
  ELSE
  Let([value \in {parse_value(s.p)} |->
  IF Failed(value.p) THEN value ELSE
  Let([j \in {accepted(value.p, "Slash")} |->
  IF Failed(j.p) THEN Ret(j.p, None)
  ELSE IF j.v
  THEN Let([rhs \in {parse_expression(j.p)} |->
       Ret(rhs.p, Join(value.v, rhs.v))])
  ELSE
  Let([c \in {accepted(j.p, "Plus")} |->
  IF Failed(c.p) THEN Ret(c.p, None)
  ELSE IF c.v
  THEN Let([rhs \in {parse_expression(c.p)} |->
       Ret(rhs.p, Concatenation(value.v, rhs.v))])
  ELSE Ret(c.p, value.v)])])])])])

\* Parser::parse_expression
parse_expression(p) ==
  IF p.depth = RecursionLimit
  THEN Ret(error(p, "ParsingRecursionDepthExceeded"), None)
  ELSE
  Let([e \in {parse_expression_body(PushFrame([p EXCEPT !.depth = @ + 1]))} |->
  IF Failed(e.p) THEN e
  ELSE Ret(PopFrame([e.p EXCEPT !.depth = @ - 1]), e.v)])

\* The operator of a conditional: `!=`, `=~`, or else `==` is expected.
parse_conditional_operator(p) ==
  Let([n \in {accepted(p, "BangEquals")} |->
  IF Failed(n.p) THEN Ret(n.p, "")
  ELSE IF n.v THEN Ret(n.p, "Inequality")
  ELSE
  Let([m \in {accepted(n.p, "EqualsTilde")} |->
  IF Failed(m.p) THEN Ret(m.p, "")
  ELSE IF m.v THEN Ret(m.p, "RegexMatch")
  ELSE Ret(expect(m.p, "EqualsEquals").p, "Equality")])])

\* `{ expression }`
parse_braced(p) ==
  Let([o \in {expect(p, "BraceL")} |->
  IF Failed(o.p) THEN Ret(o.p, None) ELSE
  Let([e \in {parse_expression(o.p)} |->
  IF Failed(e.p) THEN e
  ELSE Ret(expect(e.p, "BraceR").p, e.v)])])

\* The otherwise branch of parse_conditional: `if ...` or `{ expression }`.
parse_otherwise(p) ==
  Let([k \in {accepted_keyword(p, "if")} |->
  IF Failed(k.p) THEN Ret(k.p, None)
  ELSE IF k.v THEN parse_conditional(k.p)
  ELSE parse_braced(k.p)])

\* Parser::parse_conditional, entered after the `if` keyword.
parse_conditional_body(p) ==
  Let([lhs \in {parse_expression(p)} |->
  IF Failed(lhs.p) THEN lhs ELSE
  Let([operator \in {parse_conditional_operator(lhs.p)} |->
  IF Failed(operator.p) THEN Ret(operator.p, None) ELSE
  Let([rhs \in {parse_expression(operator.p)} |->
  IF Failed(rhs.p) THEN rhs ELSE
  Let([then \in {parse_braced(rhs.p)} |->
  IF Failed(then.p) THEN then ELSE
  Let([e \in {expect_keyword(then.p, "else")} |->
  IF Failed(e) THEN Ret(e, None) ELSE
  Let([otherwise \in {parse_otherwise(e)} |->
  IF Failed(otherwise.p) THEN otherwise
  ELSE Ret(otherwise.p,
           Conditional(lhs.v, operator.v, rhs.v, then.v,
                       otherwise.v))])])])])])])

parse_conditional(p) ==
  Let([c \in {parse_conditional_body(PushFrame(p))} |->
  IF Failed(c.p) THEN c ELSE Ret(PopFrame(c.p), c.v)])

----------------------------------------------------------------------------
(* Recipes *)

\* The identifiers of the model that begin with an underscore
\* (`name.lexeme().starts_with('_')`).
PrivateNames == {"_p"}

\* Parser::parse_parameter
parse_parameter(p, kind) ==
  Let([export \in {accepted(p, "Dollar")} |->
  IF Failed(export.p) THEN Ret(export.p, None) ELSE
  Let([name \in {parse_name(export.p)} |->
  IF Failed(name.p) THEN Ret(name.p, None) ELSE
  Let([e \in {accepted(name.p, "Equals")} |->
  IF Failed(e.p) THEN Ret(e.p, None) ELSE
  Let([default \in {IF e.v THEN parse_value(e.p) ELSE Ret(e.p, None)} |->
  IF Failed(default.p) THEN Ret(default.p, None)
  ELSE Ret(default.p,
           [default |-> default.v, export |-> export.v, kind |-> kind,
            name |-> Name(p, name.v), token |-> name.v])])])])])

\* The parameter kind a `+` or `*` announces.
parse_kind(p) ==
  Let([plus \in {accepted(p, "Plus")} |->
  IF Failed(plus.p) THEN Ret(plus.p, "Singular")
  ELSE IF plus.v THEN Ret(plus.p, "Plus")
  ELSE
  Let([star \in {accepted(plus.p, "Asterisk")} |->
  IF star.v THEN Ret(star.p, "Star") ELSE Ret(star.p, "Singular")])])

\* `self.next_is(Identifier) || self.next_is(Dollar)`
parameter_ahead(p) ==
  Let([i \in {next_is(p, "Identifier")} |->
  IF i.v THEN i ELSE next_is(i.p, "Dollar")])

RECURSIVE parse_positional_AnyKind(_, _)
parse_positional_AnyKind(p, positional) ==
  Let([kind \in {parse_kind(p)} |->
  Let([d \in {parameter_ahead(kind.p)} |->
  IF ~d.v THEN Ret(p, positional) ELSE
  Let([parameter \in {parse_parameter(d.p, kind.v)} |->
  IF Failed(parameter.p) THEN Ret(parameter.p, positional)
  ELSE parse_positional_AnyKind(parameter.p,
                                Append(positional, parameter.v))])])])

RECURSIVE parse_positional(_, _)
\* The loop of parse_recipe that collects the Singular parameters.
parse_positional(p, positional) ==
  Let([d \in {parameter_ahead(p)} |->
  IF ~d.v THEN Ret(d.p, positional) ELSE
  Let([parameter \in {parse_parameter(d.p, "Singular")} |->
  IF Failed(parameter.p) THEN Ret(parameter.p, positional)
  ELSE parse_positional(parameter.p, Append(positional, parameter.v))])])

\* ParameterKind::is_variadic
is_variadic(kind) == kind \in {"Plus", "Star"}

\* The variadic parameter of parse_recipe: parsed, and then no identifier may
\* follow.  v is the sequence of its zero or one parameters (Option).
parse_variadic(p, kind) ==
  IF ~is_variadic(kind) THEN Ret(p, <<>>) ELSE
  Let([variadic \in {parse_parameter(p, kind)} |->
  IF Failed(variadic.p) THEN Ret(variadic.p, <<>>)
  ELSE Ret(forbid(variadic.p, "Identifier"), <<variadic.v>>)])

RECURSIVE parse_arguments(_, _)
\* The loop of accept_dependency: expressions up to the closing `)`.
parse_arguments(p, arguments) ==
  Let([c \in {accepted(p, "ParenR")} |->
  IF Failed(c.p) \/ c.v THEN Ret(c.p, arguments) ELSE
  Let([e \in {parse_expression(c.p)} |->
  IF Failed(e.p) THEN Ret(e.p, arguments)
  ELSE parse_arguments(e.p, Append(arguments, e.v))])])

\* Parser::accept_dependency: v is the sequence of zero or one dependency.
accept_dependency(p) ==
  Let([recipe \in {accept_name(p)} |->
  IF Failed(recipe.p) THEN Ret(recipe.p, <<>>)
  ELSE IF recipe.v # 0
  THEN Ret(recipe.p, <<[recipe |-> Name(p, recipe.v), arguments |-> <<>>]>>)
  ELSE
  Let([o \in {accepted(recipe.p, "ParenL")} |->
  IF Failed(o.p) \/ ~o.v THEN Ret(o.p, <<>>) ELSE
  Let([name \in {parse_name(o.p)} |->
  IF Failed(name.p) THEN Ret(name.p, <<>>) ELSE
  Let([arguments \in {parse_arguments(name.p, <<>>)} |->
  Ret(arguments.p,
      <<[recipe |-> Name(p, name.v), arguments |-> arguments.v]>>)])])])])

RECURSIVE parse_dependencies(_, _)
\* `while let Some(dependency) = self.accept_dependency()?`
parse_dependencies(p, dependencies) ==
  Let([d \in {accept_dependency(p)} |->
  IF Failed(d.p) \/ d.v = <<>> THEN Ret(d.p, dependencies)
  ELSE parse_dependencies(d.p, dependencies \o d.v)])

\* The subsequents of parse_recipe, were `&&` allowed to end the list.
parse_subsequents_MaybeNone(p) ==
  Let([a \in {accepted(p, "AmpersandAmpersand")} |->
  IF Failed(a.p) \/ ~a.v THEN Ret(a.p, <<>>)
  ELSE parse_dependencies(a.p, <<>>)])

\* The subsequents of parse_recipe: after `&&` at least one dependency.
parse_subsequents(p) ==
  Let([a \in {accepted(p, "AmpersandAmpersand")} |->
  IF Failed(a.p) \/ ~a.v THEN Ret(a.p, <<>>) ELSE
  Let([subsequents \in {parse_dependencies(a.p, <<>>)} |->
  IF Failed(subsequents.p) THEN subsequents
  ELSE IF subsequents.v = <<>>
  THEN Ret(unexpected_token(subsequents.p), <<>>)
  ELSE subsequents])])

\* `Eol` accepted, or a `Dedent` ahead: the end of a line of parse_body.
line_ends(p) ==
  Let([e \in {accepted(p, "Eol")} |->
  IF e.v THEN e ELSE next_is(e.p, "Dedent")])

RECURSIVE parse_fragments(_, _)
\* The fragment loop of parse_body: up to an accepted Eol or a Dedent ahead.
parse_fragments(p, fragments) ==
  Let([d \in {line_ends(p)} |->
  IF Failed(d.p) \/ d.v THEN Ret(d.p, fragments) ELSE
  Let([text \in {accept(d.p, "Text")} |->
  IF Failed(text.p) THEN Ret(text.p, fragments)
  ELSE IF text.v # 0
  THEN parse_fragments(text.p,
         Append(fragments, [type |-> "Text", token |-> text.v,
                            lexeme |-> p.tokens[text.v].lexeme]))
  ELSE
  Let([i \in {accepted(text.p, "InterpolationStart")} |->
  IF Failed(i.p) THEN Ret(i.p, fragments)
  ELSE IF ~i.v THEN Ret(unexpected_token(i.p), fragments)
  ELSE
  Let([expression \in {parse_expression(i.p)} |->
  IF Failed(expression.p) THEN Ret(expression.p, fragments) ELSE
  Let([c \in {expect(expression.p, "InterpolationEnd")} |->
  IF Failed(c.p) THEN Ret(c.p, fragments)
  ELSE parse_fragments(c.p,
         Append(fragments, [type |-> "Interpolation",
                            expression |-> expression.v]))])])])])])

RECURSIVE parse_lines(_, _)
\* The line loop of parse_body: up to an accepted Dedent.
parse_lines(p, lines) ==
  Let([d \in {accepted(p, "Dedent")} |->
  IF Failed(d.p) \/ d.v THEN Ret(d.p, lines) ELSE
  Let([e \in {accepted(d.p, "Eol")} |->
  IF Failed(e.p) THEN Ret(e.p, lines) ELSE
  Let([line \in {IF e.v THEN Ret(e.p, <<>>)
                 ELSE parse_fragments(e.p, <<>>)} |->
  IF Failed(line.p) THEN Ret(line.p, lines)
  ELSE parse_lines(line.p, Append(lines, [fragments |-> line.v]))])])])

\* Line::is_empty
Line_is_empty(line) == line.fragments = <<>>

\* Line::is_shebang: the line begins with a text fragment that begins `#!`.
Line_is_shebang(line) ==
  /\ line.fragments # <<>>
  /\ line.fragments[1].type = "Text"
  /\ StartsWith(line.fragments[1].lexeme, <<"#", "!">>)

\* The trimming of parse_body, were only the last line popped.
TrimLines_PoppingOne(lines) ==
  IF lines # <<>> /\ Line_is_empty(lines[Len(lines)])
  THEN SubSeq(lines, 1, Len(lines) - 1)
  ELSE lines

RECURSIVE TrimLines(_)
\* `while lines.last().map_or(false, Line::is_empty) { lines.pop(); }`
TrimLines(lines) ==
  IF lines # <<>> /\ Line_is_empty(lines[Len(lines)])
  THEN TrimLines(SubSeq(lines, 1, Len(lines) - 1))
  ELSE lines

\* Parser::parse_body
parse_body(p) ==
  Let([i \in {accepted(p, "Indent")} |->
  IF Failed(i.p) THEN Ret(i.p, <<>>) ELSE
  Let([lines \in {IF i.v THEN parse_lines(i.p, <<>>) ELSE Ret(i.p, <<>>)} |->
  IF Failed(lines.p) THEN Ret(lines.p, <<>>)
  ELSE Ret(lines.p, TrimLines(lines.v))])])

\* The header of parse_recipe: name, parameters, `:`, dependencies, end of
\* line.
parse_recipe_header(p) ==
  Let([name \in {parse_name(p)} |->
  IF Failed(name.p) THEN Ret(name.p, None) ELSE
  Let([positional \in {parse_positional(name.p, <<>>)} |->
  IF Failed(positional.p) THEN Ret(positional.p, None) ELSE
  Let([kind \in {parse_kind(positional.p)} |->
  IF Failed(kind.p) THEN Ret(kind.p, None) ELSE
  Let([variadic \in {parse_variadic(kind.p, kind.v)} |->
  IF Failed(variadic.p) THEN Ret(variadic.p, None) ELSE
  Let([c \in {expect(variadic.p, "Colon")} |->
  IF Failed(c.p) THEN Ret(c.p, None) ELSE
  Let([dependencies \in {parse_dependencies(c.p, <<>>)} |->
  IF Failed(dependencies.p) THEN Ret(dependencies.p, None) ELSE
  Let([subsequents \in {parse_subsequents(dependencies.p)} |->
  IF Failed(subsequents.p) THEN Ret(subsequents.p, None)
  ELSE Ret(expect_eol(subsequents.p),
           [name |-> Name(p, name.v),
            parameters |-> positional.v \o variadic.v,
            priors |-> Len(dependencies.v),
            dependencies |-> dependencies.v \o subsequents.v])
  ])])])])])])])

\* Parser::parse_recipe
parse_recipe(p, doc, quiet, attributes) ==
  Let([header \in {parse_recipe_header(p)} |->
  IF Failed(header.p) THEN Ret(header.p, None) ELSE
  Let([body \in {parse_body(header.p)} |->
  IF Failed(body.p) THEN Ret(body.p, None)
  ELSE Ret(body.p,
           [type |-> "Recipe",
            parameters |-> header.v.parameters,
            private |-> header.v.name \in PrivateNames,
            shebang |-> body.v # <<>> /\ Line_is_shebang(body.v[1]),
            attributes |-> attributes,
            priors |-> header.v.priors,
            body |-> body.v,
            dependencies |-> header.v.dependencies,
            doc |-> doc,
            name |-> header.v.name,
            quiet |-> quiet])])])

----------------------------------------------------------------------------
(* Settings, aliases, assignments, attributes *)

BoolSettings ==
  {"allow-duplicate-recipes", "dotenv-load", "export", "fallback",
   "ignore-comments", "positional-arguments", "windows-powershell"}

\* parse_set_bool, were the bare form false.
parse_set_bool_BareFalse(p) ==
  Let([c \in {accepted(p, "ColonEquals")} |->
  IF Failed(c.p) \/ ~c.v THEN Ret(c.p, FALSE)
  ELSE
  Let([identifier \in {expect(c.p, "Identifier")} |->
  IF Failed(identifier.p) THEN Ret(identifier.p, FALSE)
  ELSE IF Name(p, identifier.v) = "true" THEN Ret(identifier.p, TRUE)
  ELSE IF Name(p, identifier.v) = "false" THEN Ret(identifier.p, FALSE)
  ELSE Ret(Fail(identifier.p,
                [CompileError("ExpectedKeyword", identifier.v) EXCEPT
                   !.expected = {"true", "false"},
                   !.found = "Identifier"]), FALSE)])])

\* Parser::parse_set_bool
parse_set_bool(p) ==
  Let([c \in {accepted(p, "ColonEquals")} |->
  IF Failed(c.p) THEN Ret(c.p, FALSE)
  ELSE IF ~c.v THEN Ret(c.p, TRUE)
  ELSE
  Let([identifier \in {expect(c.p, "Identifier")} |->
  IF Failed(identifier.p) THEN Ret(identifier.p, FALSE)
  ELSE IF Name(p, identifier.v) = "true" THEN Ret(identifier.p, TRUE)
  ELSE IF Name(p, identifier.v) = "false" THEN Ret(identifier.p, FALSE)
  ELSE Ret(Fail(identifier.p,
                [CompileError("ExpectedKeyword", identifier.v) EXCEPT
                   !.expected = {"true", "false"},
                   !.found = "Identifier"]), FALSE)])])

RECURSIVE parse_shell_arguments(_, _)
\* The argument loop of parse_shell.
parse_shell_arguments(p, arguments) ==
  Let([t \in {next_is(p, "BracketR")} |->
  IF t.v THEN Ret(t.p, arguments) ELSE
  Let([l \in {parse_string_literal(t.p)} |->
  IF Failed(l.p) THEN Ret(l.p, arguments) ELSE
  Let([c \in {accepted(l.p, "Comma")} |->
  IF Failed(c.p) \/ ~c.v THEN Ret(c.p, Append(arguments, l.v))
  ELSE parse_shell_arguments(c.p, Append(arguments, l.v))])])])

\* Parser::parse_shell
parse_shell(p) ==
  Let([o \in {expect(p, "BracketL")} |->
  IF Failed(o.p) THEN Ret(o.p, None) ELSE
  Let([command \in {parse_string_literal(o.p)} |->
  IF Failed(command.p) THEN Ret(command.p, None) ELSE
  Let([c \in {accepted(command.p, "Comma")} |->
  IF Failed(c.p) THEN Ret(c.p, None) ELSE
  Let([arguments \in {IF c.v THEN parse_shell_arguments(c.p, <<>>)
                      ELSE Ret(c.p, <<>>)} |->
  IF Failed(arguments.p) THEN Ret(arguments.p, None)
  ELSE Ret(expect(arguments.p, "BracketR").p,
           [arguments |-> arguments.v, command |-> command.v])])])])])

Set(name, value) == [type |-> "Set", name |-> name, value |-> value]

\* The value of a setting that is no boolean, after its name (token index
\* name): `:=` and a shell or a string.
parse_set_value(p, name) ==
  Let([c \in {expect(p, "ColonEquals")} |->
  IF Failed(c.p) THEN Ret(c.p, None)
  ELSE IF Name(p, name) \in {"shell", "windows-shell"}
  THEN Let([shell \in {parse_shell(c.p)} |->
       Ret(shell.p, Set(Name(p, name), shell.v))])
  ELSE IF Name(p, name) = "tempdir"
  THEN Let([l \in {parse_string_literal(c.p)} |->
       IF Failed(l.p) THEN Ret(l.p, None)
       ELSE Ret(l.p, Set(Name(p, name), [path |-> l.v.cooked]))])
  ELSE Ret(Fail(c.p, [CompileError("UnknownSetting", name) EXCEPT
                        !.name = Name(p, name)]), None)])

\* Parser::parse_set
parse_set(p) ==
  Let([k \in {presume_keyword(p, "set")} |->
  IF Failed(k) THEN Ret(k, None) ELSE
  Let([name \in {presume(k, "Identifier")} |->
  IF Failed(name.p) THEN Ret(name.p, None)
  ELSE IF Keyword_from_lexeme(Name(p, name.v)) \in BoolSettings
  THEN Let([value \in {parse_set_bool(name.p)} |->
       Ret(value.p, Set(Name(p, name.v), [bool |-> value.v]))])
  ELSE parse_set_value(name.p, name.v)])])

\* Parser::parse_alias
parse_alias(p, attributes) ==
  Let([k \in {presume_keyword(p, "alias")} |->
  IF Failed(k) THEN Ret(k, None) ELSE
  Let([name \in {parse_name(k)} |->
  IF Failed(name.p) THEN Ret(name.p, None) ELSE
  Let([e \in {presume_any(name.p, {"Equals", "ColonEquals"})} |->
  IF Failed(e.p) THEN Ret(e.p, None) ELSE
  Let([target \in {parse_name(e.p)} |->
  IF Failed(target.p) THEN Ret(target.p, None)
  ELSE Ret(expect_eol(target.p),
           [type |-> "Alias", attributes |-> attributes,
            name |-> Name(p, name.v), target |-> Name(p, target.v)])
  ])])])])

\* Parser::parse_assignment
parse_assignment(p, export) ==
  Let([name \in {parse_name(p)} |->
  IF Failed(name.p) THEN Ret(name.p, None) ELSE
  Let([e \in {presume_any(name.p, {"Equals", "ColonEquals"})} |->
  IF Failed(e.p) THEN Ret(e.p, None) ELSE
  Let([value \in {parse_expression(e.p)} |->
  IF Failed(value.p) THEN Ret(value.p, None)
  ELSE Ret(expect_eol(value.p),
           [type |-> "Assignment", export |-> export,
            name |-> Name(p, name.v), value |-> value.v])])])])

\* Attribute::from_name: the attribute a name spells.
Attributes ==
  {"linux", "macos", "no-cd", "no-exit-message", "unix", "windows"}

RECURSIVE parse_attributes_loop(_, _)
\* The loop of parse_attributes; attributes maps each attribute seen to the
\* position of its name.
parse_attributes_loop(p, attributes) ==
  Let([o \in {accepted(p, "BracketL")} |->
  IF Failed(o.p) \/ ~o.v THEN Ret(o.p, attributes) ELSE
  Let([name \in {parse_name(o.p)} |->
  IF Failed(name.p) THEN Ret(name.p, attributes)
  ELSE IF Name(p, name.v) \notin Attributes
  THEN Ret(Fail(name.p, [CompileError("UnknownAttribute", name.v) EXCEPT
                           !.name = Name(p, name.v)]), attributes)
  ELSE IF Name(p, name.v) \in DOMAIN attributes
  THEN Ret(Fail(name.p, [CompileError("DuplicateAttribute", name.v) EXCEPT
                           !.name = Name(p, name.v),
                           !.count = attributes[Name(p, name.v)]]),
           attributes)
  ELSE
  Let([c \in {expect(name.p, "BracketR")} |->
  IF Failed(c.p) THEN Ret(c.p, attributes) ELSE
  Let([e \in {expect_eol(c.p)} |->
  IF Failed(e) THEN Ret(e, attributes)
  ELSE parse_attributes_loop(e,
         [a \in DOMAIN attributes \cup {Name(p, name.v)} |->
            IF a = Name(p, name.v) THEN name.v ELSE attributes[a]])
  ])])])])

\* Parser::parse_attributes: v is [some, attributes], the Option of the set.
parse_attributes(p) ==
  Let([a \in {parse_attributes_loop(p, [x \in {} |-> 0])} |->
  Ret(a.p, [some |-> DOMAIN a.v # {}, attributes |-> DOMAIN a.v])])

----------------------------------------------------------------------------
(* Parser::parse_ast *)

RECURSIVE str_trim_end(_)
\* str::trim_end
str_trim_end(text) ==
  IF text # <<>> /\ IsBlankChar(text[Len(text)])
  THEN str_trim_end(SubSeq(text, 1, Len(text) - 1))
  ELSE text

RECURSIVE str_trim_start(_)
\* str::trim_start
str_trim_start(text) ==
  IF text # <<>> /\ IsBlankChar(text[1]) THEN str_trim_start(Tail(text)) ELSE text

Comment(contents) == [type |-> "Comment", contents |-> contents]

pop_doc_comment_KeepingItem(its, seen_eol) ==
  IF /\ ~seen_eol
     /\ its # <<>>
     /\ its[Len(its)].type = "Comment"
  THEN [doc |-> <<str_trim_start(Tail(its[Len(its)].contents))>>, items |-> its]
  ELSE [doc |-> <<>>, items |-> its]

\* pop_doc_comment, were a blank line after the comment ignored.
pop_doc_comment_IgnoringEol(its, seen_eol) ==
  IF /\ its # <<>>
     /\ its[Len(its)].type = "Comment"
  THEN [doc |-> <<str_trim_start(Tail(its[Len(its)].contents))>>,
        items |-> SubSeq(its, 1, Len(its) - 1)]
  ELSE [doc |-> <<>>, items |-> its]

\* pop_doc_comment: [doc, items]; doc is the sequence of zero or one
\* documentation strings (Option).
pop_doc_comment(its, seen_eol) ==
  IF /\ ~seen_eol
     /\ its # <<>>
     /\ its[Len(its)].type = "Comment"
  THEN [doc |-> <<str_trim_start(Tail(its[Len(its)].contents))>>,
        items |-> SubSeq(its, 1, Len(its) - 1)]
  ELSE [doc |-> <<>>, items |-> its]

\* The state of the loop of parse_ast after an iteration; break: the loop
\* was left at Eof.
Loop(p, its, seen_eol, break) ==
  [p |-> p, items |-> its,
   eol_since_last_comment |-> seen_eol, break |-> break]

\* `items.push(item)` after a parse_* call that may have failed.
Push(r, its, seen_eol) ==
  Loop(r.p, IF Failed(r.p) THEN its ELSE Append(its, r.v),
       seen_eol, FALSE)

\* `pop_doc_comment` and `items.push(Item::Recipe(self.parse_recipe(...)?))`
push_recipe(p, its, seen_eol, quiet, attributes) ==
  Let([d \in {pop_doc_comment(its, seen_eol)} |->
  Push(parse_recipe(p, d.doc, quiet, attributes), d.items, seen_eol)])

set_ahead_ColonEqualsOnly(p) ==
  next_are(p, <<"Identifier", "Identifier", "ColonEquals">>).v

\* The guard of the `Some(Keyword::Set)` arm.
set_ahead(p) ==
  \/ next_are(p, <<"Identifier", "Identifier", "ColonEquals">>).v
  \/ next_are(p, <<"Identifier", "Identifier", "Comment", "Eof">>).v
  \/ next_are(p, <<"Identifier", "Identifier", "Comment", "Eol">>).v
  \/ next_are(p, <<"Identifier", "Identifier", "Eof">>).v
  \/ next_are(p, <<"Identifier", "Identifier", "Eol">>).v

\* `self.presume_keyword(Keyword::Export)?` and the assignment after it.
parse_export(p, its, seen_eol) ==
  Let([k \in {presume_keyword(p, "export")} |->
  IF Failed(k) THEN Loop(k, its, seen_eol, FALSE)
  ELSE Push(parse_assignment(k, TRUE), its, seen_eol)])

\* The `else if self.next_is(Identifier)` arm: the match on the keyword the
\* line-leading identifier (token index n) spells.  Every guard calls
\* next_are with Identifier first, which is in the expected set already.
parse_identifier_item(p, n, its, seen_eol) ==
  Let([keyword \in {Keyword_from_lexeme(p.tokens[n].lexeme)} |->
  IF /\ keyword = "alias"
     /\ next_are(p, <<"Identifier", "Identifier", "ColonEquals">>).v
  THEN Push(parse_alias(p, {}), its, seen_eol)
  ELSE IF /\ keyword = "export"
          /\ next_are(p, <<"Identifier", "Identifier", "ColonEquals">>).v
  THEN parse_export(p, its, seen_eol)
  ELSE IF keyword = "set" /\ set_ahead(p)
  THEN Push(parse_set(p), its, seen_eol)
  ELSE IF next_are(p, <<"Identifier", "ColonEquals">>).v
  THEN Push(parse_assignment(p, FALSE), its, seen_eol)
  ELSE push_recipe(p, its, seen_eol, FALSE, {})])

\* The guard of the alias arm after attributes.  Only an Identifier token
\* spells a keyword; the guard runs next_are, which adds Identifier to the
\* expected set, only for `alias`.
alias_ahead(p, n) ==
  IF /\ p.tokens[n].kind = "Identifier"
     /\ Keyword_from_lexeme(p.tokens[n].lexeme) = "alias"
  THEN next_are(p, <<"Identifier", "Identifier", "ColonEquals">>)
  ELSE Ret(p, FALSE)

\* The `else if let Some(attributes) = self.parse_attributes()?` arm.
parse_attributed_item(p, attributes, its, seen_eol) ==
  Let([n \in {next(p)} |->
  IF Failed(n.p) THEN Loop(n.p, its, seen_eol, FALSE) ELSE
  Let([guard \in {alias_ahead(p, n.v)} |->
  IF guard.v THEN Push(parse_alias(guard.p, attributes), its, seen_eol)
  ELSE
  Let([quiet \in {accepted(guard.p, "At")} |->
  IF Failed(quiet.p) THEN Loop(quiet.p, its, seen_eol, FALSE)
  ELSE push_recipe(quiet.p, its, seen_eol, quiet.v, attributes)])])])

\* One iteration of the loop of parse_ast.
parse_item(p, its, seen_eol) ==
  Let([n \in {next(p)} |->
  IF Failed(n.p) THEN Loop(n.p, its, seen_eol, FALSE) ELSE
  Let([comment \in {accept(p, "Comment")} |->
  IF Failed(comment.p) THEN Loop(comment.p, its, seen_eol, FALSE)
  ELSE IF comment.v # 0
  THEN Loop(expect_eol(comment.p),
            Append(its, Comment(str_trim_end(p.tokens[comment.v].lexeme))),
            FALSE, FALSE)
  ELSE
  Let([eol \in {accepted(comment.p, "Eol")} |->
  IF Failed(eol.p) THEN Loop(eol.p, its, seen_eol, FALSE)
  ELSE IF eol.v THEN Loop(eol.p, its, TRUE, FALSE)
  ELSE
  Let([eof \in {accepted(eol.p, "Eof")} |->
  IF Failed(eof.p) THEN Loop(eof.p, its, seen_eol, FALSE)
  ELSE IF eof.v THEN Loop(eof.p, its, seen_eol, TRUE)
  ELSE
  Let([identifier \in {next_is(eof.p, "Identifier")} |->
  IF identifier.v
  THEN parse_identifier_item(identifier.p, n.v, its, seen_eol)
  ELSE
  Let([at \in {accepted(identifier.p, "At")} |->
  IF Failed(at.p) THEN Loop(at.p, its, seen_eol, FALSE)
  ELSE IF at.v THEN push_recipe(at.p, its, seen_eol, TRUE, {})
  ELSE
  Let([attributes \in {parse_attributes(at.p)} |->
  IF Failed(attributes.p) THEN Loop(attributes.p, its, seen_eol, FALSE)
  ELSE IF attributes.v.some
  THEN parse_attributed_item(attributes.p, attributes.v.attributes, its,
                             seen_eol)
  ELSE Loop(unexpected_token(attributes.p), its, seen_eol, FALSE)
  ])])])])])])])

\* The end of parse_ast, after the loop: every token must have been parsed.
parse_ast_end(p) ==
  IF p.next = Len(p.tokens) THEN p ELSE internal_error(p)

----------------------------------------------------------------------------
(* Builtin functions (src/src/function.rs).  A string is the sequence of    *)
(* its characters; a Result<String, String> is [ok, value].                  *)

Ok(value) == [ok |-> TRUE, value |-> value]

Err(message) == [ok |-> FALSE, value |-> message]

\* A byte that is no valid unicode: an OsString that holds it is not unicode.
BadByte == "INVALID"

IsUnicode(os_string) == \A i \in 1..Len(os_string) : os_string[i] # BadByte

\* std::env::var: the value of the process environment variable `key`.
env_var_os(key) ==
  IF key \notin DOMAIN process.env THEN [error |-> "NotPresent"]
  ELSE IF ~IsUnicode(process.env[key])
  THEN [error |-> "NotUnicode", os_string |-> process.env[key]]
  ELSE [error |-> "None", value |-> process.env[key]]

\* function::env_var, were the process environment read first.
env_var_ProcessFirst(ctx, key) ==
  IF key \in DOMAIN process.env /\ IsUnicode(process.env[key])
  THEN Ok(process.env[key])
  ELSE IF key \in DOMAIN ctx.dotenv THEN Ok(ctx.dotenv[key])
  ELSE Err(<<"environment variable ", BT>> \o key \o <<BT, " not present">>)

\* function::env_var
env_var(ctx, key) ==
  IF key \in DOMAIN ctx.dotenv THEN Ok(ctx.dotenv[key])
  ELSE LET var == env_var_os(key)
       IN CASE var.error = "NotPresent" ->
                 Err(<<"environment variable ", BT>> \o key
                       \o <<BT, " not present">>)
            [] var.error = "NotUnicode" ->
                 Err(<<"environment variable ", BT>> \o key
                       \o <<BT, " not unicode: ">> \o var.os_string)
            [] var.error = "None" -> Ok(var.value)

\* function::env_var_or_default
env_var_or_default(ctx, key, default) ==
  IF key \in DOMAIN ctx.dotenv THEN Ok(ctx.dotenv[key])
  ELSE LET var == env_var_os(key)
       IN CASE var.error = "NotPresent" -> Ok(default)
            [] var.error = "NotUnicode" ->
                 Err(<<"environment variable ", BT>> \o key
                       \o <<BT, " not unicode: ">> \o var.os_string)
            [] var.error = "None" -> Ok(var.value)

\* function::just_executable: std::env::current_exe, as a string.
just_executable(ctx) ==
  IF process.exe = <<>>
  THEN Err(<<"Error getting current executable: ">>)
  ELSE IF ~IsUnicode(process.exe)
  THEN Err(<<"Executable path is not valid unicode: ">> \o process.exe)
  ELSE Ok(process.exe)

\* function::uuid: Uuid::new_v4 draws the identifier from the random source.
uuid(ctx) == Ok(process.random)

EndsWith(s, suffix) ==
  /\ Len(s) >= Len(suffix)
  /\ SubSeq(s, Len(s) - Len(suffix) + 1, Len(s)) = suffix

\* function::trim_end_match: str::strip_suffix, or the string itself.
trim_end_match(ctx, s, pat) ==
  Ok(IF EndsWith(s, pat) THEN SubSeq(s, 1, Len(s) - Len(pat)) ELSE s)

\* function::trim_start_match: str::strip_prefix, or the string itself.
trim_start_match(ctx, s, pat) ==
  Ok(IF StartsWith(s, pat) THEN SubSeq(s, Len(pat) + 1, Len(s)) ELSE s)

\* The builtins whose evaluation is modelled.
Evaluable ==
  {"env_var", "env_var_or_default", "just_executable", "uuid",
   "trim_end_match", "trim_start_match"}

\* The call of a registry function on evaluated arguments: the match on the
\* Function variant applies the function pointer to the context and them.
Function_call(name, ctx, arguments) ==
  CASE name = "env_var" -> env_var(ctx, arguments[1])
    [] name = "env_var_or_default" ->
         env_var_or_default(ctx, arguments[1], arguments[2])
    [] name = "just_executable" -> just_executable(ctx)
    [] name = "uuid" -> uuid(ctx)
    [] name = "trim_end_match" ->
         trim_end_match(ctx, arguments[1], arguments[2])
    [] name = "trim_start_match" ->
         trim_start_match(ctx, arguments[1], arguments[2])

\* No builtin has been called.
NoEvaluation ==
  /\ context = [dotenv |-> <<>>]
  /\ process = [env |-> <<>>, exe |-> <<>>, random |-> <<>>]
  /\ evaluated = {}

----------------------------------------------------------------------------
(* Subcommand::run (src/src/subcommand.rs).  The directories are 0, the     *)
(* filesystem root, and below it 1, 2, ...: each the parent of the next.    *)
(* An error is [kind, dir]: what failed, and the justfile's directory.      *)

Root == 0

Error(kind, dir) == [kind |-> kind, dir |-> dir]

NoError_ == Error("None", Root)

\* A justfile, by what becomes of it: it does not compile, or it has its
\* `fallback` setting and runs to Ok, to an unknown recipe or to some other
\* error.
Justfile(kind, fallback, run) ==
  [kind |-> kind, fallback |-> fallback, run |-> run]

Absent == Justfile("Absent", FALSE, "")

Broken == Justfile("Broken", FALSE, "")

\* A directory that holds more than one candidate justfile.
Ambiguous == Justfile("Ambiguous", FALSE, "")

RECURSIVE Search_find_next(_)
\* Search::find_next: the nearest justfile in directory `dir` or above it.
Search_find_next(dir) ==
  IF justfiles[dir] = Ambiguous
  THEN [error |-> Error("MultipleCandidates", dir), justfile |-> dir]
  ELSE IF justfiles[dir] # Absent
  THEN [error |-> NoError_, justfile |-> dir]
  ELSE IF dir = Root
  THEN [error |-> Error("NotFound", Root), justfile |-> Root]
  ELSE Search_find_next(dir - 1)

\* Search::find: the search the configuration asks for.
Search_find(search_config, invocation_directory) ==
  CASE search_config.kind = "FromInvocationDirectory" ->
         Search_find_next(invocation_directory)
    [] search_config.kind = "FromSearchDirectory" ->
         Search_find_next(search_config.directory)
    [] search_config.kind = "WithJustfile" ->
         [error |-> NoError_, justfile |-> search_config.directory]

\* Subcommand::compile: load, lex, parse and analyze the justfile.
compile(search) ==
  CASE justfiles[search.justfile] = Absent ->
         Error("Load", search.justfile)
    [] justfiles[search.justfile] = Broken ->
         Error("Compile", search.justfile)
    [] OTHER -> NoError_

\* Justfile::run
Justfile_run(search) ==
  IF justfiles[search.justfile].run = "Ok" THEN NoError_
  ELSE Error(justfiles[search.justfile].run, search.justfile)

run_inner_FallbackAlways(search) ==
  LET compiled == compile(search)
  IN IF compiled # NoError_ THEN [err |-> compiled, fallback |-> FALSE]
     ELSE [err |-> Justfile_run(search), fallback |-> TRUE]

\* Subcommand::run_inner: the error (NoError_ for Ok) and whether the
\* justfile asks for a fallback.
run_inner(search) ==
  LET compiled == compile(search)
  IN IF compiled # NoError_ THEN [err |-> compiled, fallback |-> FALSE]
     ELSE [err |-> Justfile_run(search),
           fallback |-> justfiles[search.justfile].fallback]

\* A Result<(), Error> of Subcommand::run.
Result(err) == [ok |-> err = NoError_, err |-> err]

\* The guard of Subcommand::run: the retry loop is taken.
Walks ==
  /\ config.unstable
  /\ config.search_config.kind \in
       {"FromInvocationDirectory", "FromSearchDirectory"}

\* Subcommand::run enters its retry loop.
RunWalk ==
  /\ run_pc = "start"
  /\ Walks
  /\ path' = IF config.search_config.kind = "FromInvocationDirectory"
             THEN config.invocation_directory
             ELSE config.search_config.directory
  /\ unknown_recipes_errors' = <<>>
  /\ run_pc' = "loop"
  /\ UNCHANGED <<config, justfiles, searched, attempted, returned>>
  /\ UNCHANGED <<parseVars, evalVars>>

\* The else branch of Subcommand::run: one search, one run_inner.
RunOnce ==
  /\ run_pc = "start"
  /\ ~Walks
  /\ LET search == Search_find(config.search_config,
                               config.invocation_directory)
     IN IF search.error # NoError_
        THEN /\ returned' = Result(search.error)
             /\ UNCHANGED attempted
        ELSE /\ returned' = Result(run_inner(search).err)
             /\ attempted' = Append(attempted, search.justfile)
  /\ run_pc' = "done"
  /\ UNCHANGED <<config, justfiles, path, unknown_recipes_errors, searched>>
  /\ UNCHANGED <<parseVars, evalVars>>

RunLoop_RetrySameDirectory ==
  /\ run_pc = "loop"
  /\ searched' = Append(searched, path)
  /\ LET search == Search_find_next(path)
         ran == run_inner(search)
     IN IF search.error.kind = "NotFound"
        THEN /\ returned' = IF unknown_recipes_errors # <<>>
                            THEN Result(unknown_recipes_errors[1])
                            ELSE Result(search.error)
             /\ run_pc' = "done"
             /\ UNCHANGED <<path, unknown_recipes_errors, attempted>>
        ELSE IF search.error # NoError_
        THEN /\ returned' = Result(search.error)
             /\ run_pc' = "done"
             /\ UNCHANGED <<path, unknown_recipes_errors, attempted>>
        ELSE /\ attempted' = Append(attempted, search.justfile)
             /\ IF ran.err.kind = "UnknownRecipes" /\ ran.fallback
                THEN IF search.justfile # Root
                     THEN /\ unknown_recipes_errors' =
                               IF unknown_recipes_errors = <<>>
                               THEN <<ran.err>>
                               ELSE unknown_recipes_errors
                          /\ path' = search.justfile
                          /\ UNCHANGED <<returned, run_pc>>
                     ELSE /\ returned' = Result(ran.err)
                          /\ run_pc' = "done"
                          /\ UNCHANGED <<path, unknown_recipes_errors>>
                ELSE /\ returned' = Result(ran.err)
                     /\ run_pc' = "done"
                     /\ UNCHANGED <<path, unknown_recipes_errors>>
  /\ UNCHANGED <<config, justfiles>>
  /\ UNCHANGED <<parseVars, evalVars>>

\* One iteration of the loop of Subcommand::run.
RunLoop ==
  /\ run_pc = "loop"
  /\ searched' = Append(searched, path)
  /\ LET search == Search_find_next(path)
         ran == run_inner(search)
     IN IF search.error.kind = "NotFound"
        THEN /\ returned' = IF unknown_recipes_errors # <<>>
                            THEN Result(unknown_recipes_errors[1])
                            ELSE Result(search.error)
             /\ run_pc' = "done"
             /\ UNCHANGED <<path, unknown_recipes_errors, attempted>>
        ELSE IF search.error # NoError_
        THEN /\ returned' = Result(search.error)
             /\ run_pc' = "done"
             /\ UNCHANGED <<path, unknown_recipes_errors, attempted>>
        ELSE /\ attempted' = Append(attempted, search.justfile)
             /\ IF ran.err.kind = "UnknownRecipes" /\ ran.fallback
                THEN IF search.justfile # Root
                     THEN /\ unknown_recipes_errors' =
                               IF unknown_recipes_errors = <<>>
                               THEN <<ran.err>>
                               ELSE unknown_recipes_errors
                          /\ path' = search.justfile - 1
                          /\ UNCHANGED <<returned, run_pc>>
                     ELSE /\ returned' = Result(ran.err)
                          /\ run_pc' = "done"
                          /\ UNCHANGED <<path, unknown_recipes_errors>>
                ELSE /\ returned' = Result(ran.err)
                     /\ run_pc' = "done"
                     /\ UNCHANGED <<path, unknown_recipes_errors>>
  /\ UNCHANGED <<config, justfiles>>
  /\ UNCHANGED <<parseVars, evalVars>>

\* Subcommand::run has not been called.
NoRun ==
  /\ config = [unstable |-> FALSE, invocation_directory |-> Root,
               search_config |-> [kind |-> "WithJustfile", directory |-> Root]]
  /\ justfiles = <<>>
  /\ run_pc = "idle"
  /\ path = Root
  /\ unknown_recipes_errors = <<>>
  /\ searched = <<>>
  /\ attempted = <<>>
  /\ returned = Result(NoError_)

----------------------------------------------------------------------------
(* The parser as a state machine: the lexer hands over a token stream that  *)
(* ends with Eof, Parser::parse runs parse_ast one loop iteration a step.    *)

\* The lexer emits one more phrase (a token, or a fixed run of tokens) of
\* the alphabet, while fewer than maxLen phrases have been emitted.
Lex(alphabet, maxLen) ==
  /\ pc = "lex"
  /\ lexed < maxLen
  /\ \E phrase \in alphabet : tokens' = tokens \o phrase
  /\ lexed' = lexed + 1
  /\ UNCHANGED <<pc, parser, items, eol_since_last_comment, result>>
  /\ UNCHANGED <<evalVars, runVars>>

\* The lexer ends the stream with its Eof token.
LexEof ==
  /\ pc = "lex"
  /\ tokens' = Append(tokens, Tok("Eof"))
  /\ pc' = "lexed"
  /\ UNCHANGED <<lexed, parser, items, eol_since_last_comment, result>>
  /\ UNCHANGED <<evalVars, runVars>>

\* Parser::parse up to the loop of parse_ast: Parser::new, the empty item
\* list, and the optional byte order mark.
ParseBegin ==
  /\ pc = "lexed"
  /\ \E b \in {accept(Parser_new(tokens), "ByteOrderMark")} :
       /\ parser' = b.p
       /\ pc' = IF Failed(b.p) THEN "returned" ELSE "loop"
       /\ result' = IF Failed(b.p) THEN "Err" ELSE ""
  /\ items' = <<>>
  /\ eol_since_last_comment' = FALSE
  /\ UNCHANGED <<tokens, lexed>>
  /\ UNCHANGED <<evalVars, runVars>>

\* One iteration of the loop of parse_ast; an error returns it, and the
\* break at Eof runs the rest of parse_ast and returns the Ast.
ParseItem ==
  /\ pc = "loop"
  /\ \E l \in {parse_item(parser, items, eol_since_last_comment)} :
       /\ items' = l.items
       /\ eol_since_last_comment' = l.eol_since_last_comment
       /\ IF Failed(l.p)
          THEN parser' = l.p /\ pc' = "returned" /\ result' = "Err"
          ELSE IF l.break
          THEN \E end \in {parse_ast_end(l.p)} :
                 /\ parser' = end
                 /\ pc' = "returned"
                 /\ result' = IF Failed(end) THEN "Err" ELSE "Ok"
          ELSE parser' = l.p /\ pc' = "loop" /\ result' = ""
  /\ UNCHANGED <<tokens, lexed>>
  /\ UNCHANGED <<evalVars, runVars>>

\* The state before the lexer has produced the tokens after `prefix`.
NoParse(prefix) ==
  /\ tokens = prefix
  /\ lexed = 0
  /\ pc = "lex"
  /\ parser = Parser_new(<<>>)
  /\ items = <<>>
  /\ eol_since_last_comment = FALSE
  /\ result = ""

InitParser(prefix) == NoParse(prefix) /\ NoEvaluation /\ NoRun

Returned == pc = "returned"

ident_x == Id("x")
ident_a == Id("a")
ident_b == Id("b")
ColonEquals == Tok("ColonEquals")

----------------------------------------------------------------------------
(* SpecExpr: assignments `x := e` whose expression e is any run of          *)
(* primaries (identifiers, a string) and the operators `/` and `+`.          *)

MaxExprLen == 5

String_s == Token("StringToken", <<Q1, "s", Q1>>)

ExprAlphabet == {<<ident_a>>, <<ident_b>>, <<String_s>>, <<Tok("Slash")>>, <<Tok("Plus")>>}

InitExpr == InitParser(<<ident_x, ColonEquals>>)

LexExpr == Lex(ExprAlphabet, MaxExprLen)

NextExpr == LexExpr \/ LexEof \/ ParseBegin \/ ParseItem

SpecExpr == InitExpr /\ [][NextExpr]_vars

IsPrimary(t) == t.kind \in {"Identifier", "StringToken"}

\* The expression a lone primary token parses to.
Primary(t) == parse_value(Parser_new(<<t, Tok("Eof")>>)).v

Binary(op, lhs, rhs) ==
  IF op.kind = "Slash" THEN Join(lhs, rhs) ELSE Concatenation(lhs, rhs)

\* `x := p1 op1 p2 op2 p3` has been parsed.
ChainParsed ==
  /\ Returned
  /\ Len(tokens) = 8
  /\ \A i \in {3, 5, 7} : IsPrimary(tokens[i])
  /\ \A i \in {4, 6} : tokens[i].kind \in {"Slash", "Plus"}

\* C1: `+` binds looser than `/` and both associate to the right:
\* a / b + c is Concatenation(Join(a, b), c), a + b / c is
\* Concatenation(a, Join(b, c)), a + b + c is Concatenation(a,
\* Concatenation(b, c)) and a / b / c is Join(a, Join(b, c)).
C1_ConcatenationLooserThanJoin ==
  ChainParsed =>
    /\ result = "Ok"
    /\ items = <<[type |-> "Assignment", export |-> FALSE, name |-> "x",
                  value |->
                    IF tokens[4].kind = "Slash" /\ tokens[6].kind = "Plus"
                    THEN Concatenation(
                           Join(Primary(tokens[3]), Primary(tokens[5])),
                           Primary(tokens[7]))
                    ELSE Binary(tokens[4], Primary(tokens[3]),
                                Binary(tokens[6], Primary(tokens[5]),
                                       Primary(tokens[7])))]>>

\* What the code does: the two operators have one precedence level and
\* associate to the right, so p1 op1 p2 op2 p3 is op1(p1, op2(p2, p3)).
C1_CodeRightNested ==
  ChainParsed =>
    /\ result = "Ok"
    /\ items = <<[type |-> "Assignment", export |-> FALSE, name |-> "x",
                  value |-> Binary(tokens[4], Primary(tokens[3]),
                                   Binary(tokens[6], Primary(tokens[5]),
                                          Primary(tokens[7])))]>>

----------------------------------------------------------------------------
(* SpecDepth: assignments whose expression nests conditionals and groups.   *)

MaxDepthLen == 5

IfElse ==
  <<Id("if"), ident_a, Tok("EqualsEquals"), ident_a, Tok("BraceL"), ident_a, Tok("BraceR"),
    Id("else")>>

DepthAlphabet ==
  {<<Id("if")>>, <<Tok("ParenL")>>, <<ident_a>>, <<Tok("ParenR")>>, IfElse,
   <<Tok("BraceL"), ident_a, Tok("BraceR")>>}

InitDepth == InitParser(<<ident_x, ColonEquals>>)

LexDepth == Lex(DepthAlphabet, MaxDepthLen)

NextDepth == LexDepth \/ LexEof \/ ParseBegin \/ ParseItem

SpecDepth == InitDepth /\ [][NextDepth]_vars

\* C2: at every point of a parse the number of nested parse_expression and
\* parse_conditional activations is at most the recursion ceiling.
C2_NestingWithinCeiling == parser.maxFrames <= RecursionLimit

\* What the code bounds: the nested parse_expression activations alone.
C2_DepthWithinCeiling == parser.depth <= RecursionLimit

\* A parse that succeeded although it nested deeper than the ceiling.
C2_DeepParseSucceeds ==
  ~(Returned /\ result = "Ok" /\ parser.maxFrames > RecursionLimit)

----------------------------------------------------------------------------
(* SpecAny: every stream of up to MaxAnyLen phrases of a broad alphabet     *)
(* (every token kind the items of a justfile begin with, and the openings   *)
(* of the keyword items), closed by the one Eof.  The streams need not be   *)
(* ones the lexer emits.                                                     *)

MaxAnyLen == 3

AnyAlphabet ==
  {<<ident_a>>, <<Id("alias")>>, <<Id("export")>>, <<Id("set")>>, <<ColonEquals>>,
   <<Tok("Colon")>>, <<Tok("Equals")>>, <<Tok("Eol")>>,
   <<Token("Comment", <<"#", "c">>)>>, <<Tok("Whitespace")>>,
   <<Tok("ParenL")>>, <<Tok("ParenR")>>, <<Tok("At")>>, <<Tok("BracketL")>>,
   <<Tok("BracketR")>>, <<Tok("Indent")>>, <<Tok("Dedent")>>,
   <<Token("Text", <<"t">>)>>, <<String_s>>, <<Tok("ByteOrderMark")>>,
   <<Id("alias"), ident_a>>, <<Id("export"), ident_a>>, <<Id("set"), ident_a>>,
   <<ident_a, ColonEquals>>}

InitAny == InitParser(<<>>)

LexAny == Lex(AnyAlphabet, MaxAnyLen)

NextAny == LexAny \/ LexEof \/ ParseBegin \/ ParseItem

SpecAny == InitAny /\ [][NextAny]_vars

\* C3: on a stream that ends in its one Eof token, Parser::parse never
\* fails with CompileErrorKind::Internal (no presume_* check fails, next and
\* advance stay inside the stream), and a successful parse has consumed
\* every token.
C3_NoInternalError ==
  /\ parser.err.kind # "Internal"
  /\ Returned /\ result = "Ok" =>
       /\ parser.next = Len(tokens)
       /\ parser.err = NoError

\* A parse that went through presume_keyword and presume_any and returned
\* an Ast.
C3_AliasParsed ==
  /\ Returned
  /\ result = "Ok"
  /\ \E i \in 1..Len(items) : items[i].type = "Alias"

----------------------------------------------------------------------------
(* SpecCall: calls of builtin functions, one of each arity class, with any  *)
(* number of arguments, in the four places an expression is parsed: an      *)
(* assignment, a parameter default, an interpolation in a recipe body and   *)
(* the else branch of a conditional.                                         *)

MaxCallLen == 4

foo == Id("foo")

InAssignment == <<ident_x, ColonEquals>>

InDefault == <<foo, ident_a, Tok("Equals")>>

InInterpolation ==
  <<foo, Tok("Colon"), Tok("Eol"), Tok("Indent"), Tok("InterpolationStart")>>

InBranch ==
  <<ident_x, ColonEquals, Id("if"), ident_a, Tok("EqualsEquals"), ident_a, Tok("BraceL"), ident_a,
    Tok("BraceR"), Id("else"), Tok("BraceL")>>

Contexts == {InAssignment, InDefault, InInterpolation, InBranch}

\* The tokens that end the item after the expression.
Closer(prefix) ==
  CASE prefix = InAssignment -> <<>>
    [] prefix = InDefault -> <<Tok("Colon")>>
    [] prefix = InInterpolation ->
         <<Tok("InterpolationEnd"), Tok("Eol"), Tok("Dedent")>>
    [] prefix = InBranch -> <<Tok("BraceR")>>

\* One builtin of each arity class.
Called == {"arch", "trim", "trim_end_match", "join", "replace"}

CallAlphabet ==
  {<<Id(f), Tok("ParenL")>> : f \in Called}
    \cup {<<ident_a, Tok("Comma")>>, <<ident_a, Tok("ParenR")>>, <<Tok("ParenR")>>}

InitCall == \E prefix \in Contexts : InitParser(prefix)

LexCall == Lex(CallAlphabet, MaxCallLen)

\* The lexer ends the item the expression stands in, and the stream.
LexCallEnd ==
  /\ pc = "lex"
  /\ \E prefix \in Contexts :
       /\ StartsWith(tokens, prefix)
       /\ tokens' = tokens \o Closer(prefix) \o <<Tok("Eof")>>
  /\ pc' = "lexed"
  /\ UNCHANGED <<lexed, parser, items, eol_since_last_comment, result>>
  /\ UNCHANGED <<evalVars, runVars>>

NextCall == LexCall \/ LexCallEnd \/ ParseBegin \/ ParseItem

SpecCall == InitCall /\ [][NextCall]_vars

\* The argument counts each arity class takes.
InClass(class, n) ==
  CASE class = "Nullary"    -> n = 0
    [] class = "Unary"      -> n = 1
    [] class = "Binary"     -> n = 2
    [] class = "BinaryPlus" -> n >= 2
    [] class = "Ternary"    -> n = 3

RECURSIVE CountArguments(_, _, _, _)
\* The number of arguments between the `(` before token i and its `)`,
\* counted on the tokens: an argument starts after that `(` or after a comma
\* at the same nesting level.  -1 when the `)` is missing.
CountArguments(toks, i, level, start) ==
  IF i > Len(toks) THEN -1
  ELSE IF toks[i].kind = "ParenR"
  THEN IF level = 0 THEN 0
       ELSE CountArguments(toks, i + 1, level - 1, FALSE)
  ELSE LET rest == CountArguments(toks, i + 1,
                     IF toks[i].kind = "ParenL" THEN level + 1 ELSE level,
                     level = 0 /\ toks[i].kind = "Comma")
       IN IF rest = -1 THEN -1
          ELSE IF level = 0 /\ start THEN rest + 1 ELSE rest

\* The token index of every call: a builtin's name followed by `(`.
CallSites ==
  {i \in 1..Len(tokens) - 1 :
     /\ tokens[i].kind = "Identifier"
     /\ tokens[i].lexeme \in Called
     /\ tokens[i + 1].kind = "ParenL"}

ArgumentsAt(i) == CountArguments(tokens, i + 2, 0, TRUE)

\* The stream is one call, of plain arguments, in its context.
OneCall ==
  /\ Cardinality(CallSites) = 1
  /\ \E i \in CallSites :
       /\ SubSeq(tokens, 1, i - 1) \in Contexts
       /\ ArgumentsAt(i) >= 0
       /\ \E j \in i + 2..Len(tokens) :
            /\ tokens[j].kind = "ParenR"
            /\ \A k \in i + 2..j - 1 :
                 tokens[k].kind \in {"Identifier", "Comma"}
            /\ SubSeq(tokens, j + 1, Len(tokens)) =
                 Closer(SubSeq(tokens, 1, i - 1)) \o <<Tok("Eof")>>

\* C4: the argument count of a call is checked while parsing.  A
\* FunctionArgumentCountMismatch names the function, the count found and
\* the range of its arity class, at the function's name, and is raised only
\* for a count outside the class; a parse succeeds only if every call has a
\* count of its class; and a call with a count outside its class fails so
\* in an assignment, a parameter default, an interpolation and a branch a
\* conditional does not take.
C4_ArityCheckedAtParseTime ==
  Returned =>
    /\ parser.err.kind = "FunctionArgumentCountMismatch" =>
         /\ result = "Err"
         /\ parser.err.at \in CallSites
         /\ parser.err.name = tokens[parser.err.at].lexeme
         /\ parser.err.count = ArgumentsAt(parser.err.at)
         /\ ~InClass(Functions[parser.err.name], parser.err.count)
         /\ \A n \in 0..MaxCallLen + 1 :
              InClass(Functions[parser.err.name], n)
                <=> (parser.err.min <= n /\ n <= parser.err.max)
    /\ result = "Ok" =>
         \A i \in CallSites :
           InClass(Functions[tokens[i].lexeme], ArgumentsAt(i))
    /\ OneCall =>
         \A i \in CallSites :
           IF InClass(Functions[tokens[i].lexeme], ArgumentsAt(i))
           THEN result = "Ok"
           ELSE /\ result = "Err"
                /\ parser.err.kind = "FunctionArgumentCountMismatch"
                /\ parser.err.at = i

\* A call with too many arguments in the else branch of a conditional whose
\* condition holds was rejected.
C4_MismatchInUntakenBranch ==
  /\ Returned
  /\ OneCall
  /\ StartsWith(tokens, InBranch)
  /\ parser.err.kind = "FunctionArgumentCountMismatch"
  /\ parser.err.count > parser.err.max

----------------------------------------------------------------------------
(* SpecDoc: justfiles made of comment lines, blank lines, recipes (plain,   *)
(* quiet, with an attribute), aliases and assignments.                       *)

MaxDocLen == 4

Eol == Tok("Eol")

DocAlphabet ==
  {<<Token("Comment", <<"#", SP, "d">>), Eol>>,
   <<Token("Comment", <<"#">>), Eol>>,
   <<Eol>>,
   <<foo, Tok("Colon"), Eol>>,
   <<Tok("At"), foo, Tok("Colon"), Eol>>,
   <<Tok("BracketL"), Id("private"), Tok("BracketR"), Eol>>,
   <<Id("alias"), ident_b, ColonEquals, foo, Eol>>,
   <<ident_x, ColonEquals, ident_a, Token("Comment", <<"#", "t">>), Eol>>}

InitDoc == InitParser(<<>>)

LexDoc == Lex(DocAlphabet, MaxDocLen)

NextDoc == LexDoc \/ LexEof \/ ParseBegin \/ ParseItem

SpecDoc == InitDoc /\ [][NextDoc]_vars

\* The loop of parse_ast is about to parse the item on the line after a
\* line that holds a comment and nothing else: the last two tokens consumed
\* are that comment and its Eol, and the comment starts its line.
AfterCommentLine ==
  /\ pc = "loop"
  /\ parser.next >= 2
  /\ tokens[parser.next].kind = "Eol"
  /\ tokens[parser.next - 1].kind = "Comment"
  /\ parser.next > 2 => tokens[parser.next - 2].kind = "Eol"

\* The text of a comment token after its `#`, as a doc comment holds it.
DocOf(comment) == str_trim_start(Tail(str_trim_end(comment.lexeme)))

\* This step of parse_ast pushed an item of one of the types.
Pushed(types) ==
  /\ result' # "Err"
  /\ items' # <<>>
  /\ items'[Len(items')].type \in types
  /\ items' # items

\* The item pushed carries the comment of the line before as its doc, and
\* the comment is no item any more.
DocAttached ==
  /\ "doc" \in DOMAIN items'[Len(items')]
  /\ items'[Len(items')].doc = <<DocOf(tokens[parser.next - 1])>>
  /\ Len(items') = Len(items)
  /\ \A i \in 1..Len(items) - 1 : items'[i] = items[i]
  /\ items[Len(items)].type = "Comment"

----------------------------------------------------------------------------
(* SpecRecipe: recipe lines `foo ...` whose header is any run of parameter  *)
(* names, `$`, `+`, `*`, defaults and the colon.                             *)

MaxRecipeLen == 5

RecipeAlphabet ==
  {<<ident_a>>, <<ident_b>>, <<Tok("Dollar")>>, <<Tok("Plus")>>, <<Tok("Asterisk")>>,
   <<Tok("Equals"), String_s>>, <<Tok("Colon")>>, <<Eol>>}

InitRecipe == InitParser(<<foo>>)

LexRecipe == Lex(RecipeAlphabet, MaxRecipeLen)

NextRecipe == LexRecipe \/ LexEof \/ ParseBegin \/ ParseItem

SpecRecipe == InitRecipe /\ [][NextRecipe]_vars

IsVariadicMark(t) == t.kind \in {"Plus", "Asterisk"}

\* Token i starts a variadic parameter, whose tokens end at token j - 1:
\* `+` or `*`, an optional `$`, the name and an optional default.
VariadicParameter(i, j) ==
  /\ IsVariadicMark(tokens[i])
  /\ \E n \in {i + 1, i + 2} :
       /\ n <= Len(tokens)
       /\ n = i + 2 => tokens[i + 1].kind = "Dollar"
       /\ tokens[n].kind = "Identifier"
       /\ \/ j = n + 1 /\ j <= Len(tokens) /\ tokens[j].kind # "Equals"
          \/ j = n + 3 /\ tokens[n + 1].kind = "Equals"

\* Token n names the parameter that starts at token j: plain, or exported
\* with `$`.
ParameterFrom(j, n) ==
  /\ n <= Len(tokens)
  /\ tokens[n].kind = "Identifier"
  /\ \/ n = j
     \/ n = j + 1 /\ tokens[j].kind = "Dollar"

\* The header is `foo`, Singular parameters, and the first variadic mark at
\* token i.
FirstVariadicAt(i) ==
  /\ i \in 2..Len(tokens)
  /\ IsVariadicMark(tokens[i])
  /\ \A k \in 2..i - 1 :
       tokens[k].kind \in {"Identifier", "Dollar", "Equals", "StringToken"}
  /\ \A k \in 2..i - 1 :
       /\ tokens[k].kind = "Dollar" => tokens[k + 1].kind = "Identifier"
       /\ tokens[k].kind = "Equals" =>
            k > 2 /\ tokens[k - 1].kind = "Identifier"
       /\ tokens[k].kind = "StringToken" => tokens[k - 1].kind = "Equals"
       /\ tokens[k].kind = "Identifier" /\ k > 2 =>
            tokens[k - 1].kind # "Equals"

\* C6: a variadic parameter followed by one more parameter, plain or
\* exported with `$`, is rejected with ParameterFollowsVariadicParameter,
\* which names the parameter that follows and stands at its token.
C6_ParameterAfterVariadicRejected ==
  Returned =>
    \A i, j, n \in 1..Len(tokens) :
      FirstVariadicAt(i) /\ VariadicParameter(i, j) /\ ParameterFrom(j, n) =>
        /\ result = "Err"
        /\ parser.err.kind = "ParameterFollowsVariadicParameter"
        /\ parser.err.name = tokens[n].lexeme
        /\ parser.err.at \in {j, n}

\* What the code does: the error is raised for an identifier that follows
\* the variadic parameter, and for nothing else.
C6_CodeForbidsIdentifier ==
  Returned =>
    \A i, j \in 1..Len(tokens) :
      FirstVariadicAt(i) /\ VariadicParameter(i, j) =>
        IF tokens[j].kind = "Identifier"
        THEN /\ result = "Err"
             /\ parser.err.kind = "ParameterFollowsVariadicParameter"
             /\ parser.err.name = tokens[j].lexeme
             /\ parser.err.at = j
        ELSE parser.err.kind # "ParameterFollowsVariadicParameter"

\* The tokens lo..hi that name a parameter: the identifiers that no `=`
\* precedes.
NamesWithin(lo, hi) ==
  {k \in lo..hi :
     tokens[k].kind = "Identifier" /\ tokens[k - 1].kind # "Equals"}

\* The first colon of the stream, which ends the header of the first recipe.
FirstColon ==
  CHOOSE c \in 1..Len(tokens) :
    /\ tokens[c].kind = "Colon"
    /\ \A k \in 1..c - 1 : tokens[k].kind # "Colon"

\* C7: in every recipe parsed, at most one parameter is variadic and it is
\* the last, every parameter before it is Singular, and the parameters are
\* the ones of the header, none left out, in source order.
C7_VariadicLast ==
  \A r \in 1..Len(items) :
    items[r].type = "Recipe" =>
      LET ps == items[r].parameters
          at == {ps[k].token : k \in 1..Len(ps)}
      IN /\ \A k \in 1..Len(ps) - 1 : ps[k].kind = "Singular"
         /\ Cardinality({k \in 1..Len(ps) : is_variadic(ps[k].kind)}) <= 1
         /\ \A k, l \in 1..Len(ps) : k < l => ps[k].token < ps[l].token
         /\ \A k \in 1..Len(ps) : ps[k].name = tokens[ps[k].token].lexeme
         /\ ps # <<>> => at = NamesWithin(ps[1].token, ps[Len(ps)].token)
         /\ r = 1 => at = NamesWithin(2, FirstColon - 1)

\* A recipe with two Singular parameters and a variadic one was parsed.
C7_ThreeParameters ==
  /\ Returned
  /\ result = "Ok"
  /\ items # <<>>
  /\ items[1].type = "Recipe"
  /\ Len(items[1].parameters) = 3
  /\ is_variadic(items[1].parameters[3].kind)

----------------------------------------------------------------------------
(* SpecEval: builtin functions called on short strings, with any dotenv     *)
(* map in the FunctionContext, while the process environment, the           *)
(* executable and the random source are whatever the process holds.         *)

MaxCalls == 2

K == <<"K">>

Keys == {K, <<"L">>}

Values == {<<"v">>, <<"w", BadByte>>}

Strings == {<<>>, <<"v">>, <<"v", "v">>}

\* The maps from some of the keys to values.
Maps == UNION {[keys -> Values] : keys \in SUBSET Keys}

Paths == {<<"j">>, <<"k">>}

Randoms == {<<"0">>, <<"1">>}

\* The argument lists a builtin is called with here.
Arguments(name) ==
  CASE name \in {"just_executable", "uuid"} -> {<<>>}
    [] name = "env_var" -> {<<key>> : key \in Keys}
    [] name = "env_var_or_default" -> {<<K, default>> : default \in Values}
    [] name \in {"trim_end_match", "trim_start_match"} ->
         {<<s, pat>> : s \in Strings, pat \in {<<"v">>}}

InitEval ==
  /\ NoParse(<<>>)
  /\ NoRun
  /\ context \in [dotenv : Maps]
  /\ process \in [env : {<<>>}, exe : Paths, random : Randoms]
  /\ evaluated = {}

\* A builtin is called: the evaluator looks it up in the registry and calls
\* it with the context and the arguments; a random draw moves the source on.
Call ==
  /\ Cardinality(evaluated) < MaxCalls
  /\ \E name \in Evaluable :
       \E arguments \in Arguments(name) :
         /\ get(name) # "None"
         /\ Len(arguments) >= Function_argc(get(name)).min
         /\ Len(arguments) <= Function_argc(get(name)).max
         /\ evaluated' = evaluated \cup
              {[function |-> name, context |-> context,
                arguments |-> arguments,
                result |-> Function_call(name, context, arguments)]}
         /\ IF name = "uuid"
            THEN \E random \in Randoms :
                   process' = [process EXCEPT !.random = random]
            ELSE UNCHANGED process
  /\ UNCHANGED <<context, parseVars, runVars>>

\* The process environment changes: a variable is set.
SetVar ==
  /\ \E key \in Keys, value \in Values :
       process' = [process EXCEPT !.env =
                     [k \in DOMAIN process.env \cup {key} |->
                        IF k = key THEN value ELSE process.env[k]]]
  /\ UNCHANGED <<context, evaluated, parseVars, runVars>>

\* The process environment changes: a variable is removed.
RemoveVar ==
  /\ \E key \in DOMAIN process.env :
       process' = [process EXCEPT !.env =
                     [k \in DOMAIN process.env \ {key} |-> process.env[k]]]
  /\ UNCHANGED <<context, evaluated, parseVars, runVars>>

\* The program runs as another executable.
Exec ==
  /\ \E exe \in Paths : exe # process.exe /\ process' = [process EXCEPT !.exe = exe]
  /\ UNCHANGED <<context, evaluated, parseVars, runVars>>

NextEval == Call \/ SetVar \/ RemoveVar \/ Exec

SpecEval == InitEval /\ [][NextEval]_vars

\* C8: two calls of the same builtin with the same FunctionContext and the
\* same arguments return the same result.
C8_CallsDeterministic ==
  \A c, d \in evaluated :
    /\ c.function = d.function
    /\ c.context = d.context
    /\ c.arguments = d.arguments
    => c.result = d.result

\* What the code keeps: the builtins that read neither the process nor the
\* random source return the same result for the same arguments.
C8_PureCallsDeterministic ==
  \A c, d \in evaluated :
    /\ c.function = d.function
    /\ c.function \in {"trim_end_match", "trim_start_match"}
    /\ c.context = d.context
    /\ c.arguments = d.arguments
    => c.result = d.result

----------------------------------------------------------------------------
(* SpecRun: Subcommand::run in a chain of directories, each with any        *)
(* justfile or none, under every configuration of the search.               *)

MaxDepth == 2

Dirs == Root..MaxDepth

Justfiles ==
  {Absent, Broken, Ambiguous}
    \cup {Justfile("Justfile", fallback, run) :
            fallback \in BOOLEAN, run \in {"Ok", "UnknownRecipes", "Other"}}

SearchConfigs ==
  {[kind |-> "FromInvocationDirectory", directory |-> MaxDepth]}
    \cup {[kind |-> kind, directory |-> dir] :
            kind \in {"FromSearchDirectory", "WithJustfile"}, dir \in Dirs}

InitRun ==
  /\ NoParse(<<>>)
  /\ NoEvaluation
  /\ config \in [unstable : BOOLEAN, invocation_directory : {MaxDepth},
                 search_config : SearchConfigs]
  /\ justfiles \in [Dirs -> Justfiles]
  /\ run_pc = "start"
  /\ path = Root
  /\ unknown_recipes_errors = <<>>
  /\ searched = <<>>
  /\ attempted = <<>>
  /\ returned = Result(NoError_)

NextRun == RunWalk \/ RunOnce \/ RunLoop

SpecRun == InitRun /\ [][NextRun]_vars

Done == run_pc = "done"

Last(seq) == seq[Len(seq)]

\* The justfile of directory dir runs to Ok.
Succeeds(dir) ==
  justfiles[dir].kind = "Justfile" /\ justfiles[dir].run = "Ok"

\* The justfile of directory dir fails on an unknown recipe.
UnknownRecipe(dir) ==
  justfiles[dir].kind = "Justfile" /\ justfiles[dir].run = "UnknownRecipes"

\* C9: when run has retried and is over, it returns Ok if the justfile
\* attempted last ran successfully, and otherwise the unknown-recipe error
\* of the first justfile attempted, whichever way the walk ended.
C9_FirstErrorSurfaces ==
  Done /\ Len(searched) >= 2 =>
    IF Succeeds(Last(attempted))
    THEN returned.ok
    ELSE returned = Result(Error("UnknownRecipes", attempted[1]))

\* What the code keeps: the first error is the one returned when the walk
\* ends because no further justfile is found.
C9_FirstErrorWhenNotFound ==
  Done /\ Len(searched) >= 2 /\ Len(searched) > Len(attempted)
       /\ Search_find_next(Last(searched)).error.kind = "NotFound" =>
    returned = Result(Error("UnknownRecipes", attempted[1]))

\* Attempt k is one the fallback applies to: the justfile has the setting,
\* failed on an unknown recipe, and its directory has a parent.
FallbackApplies(k) ==
  /\ UnknownRecipe(attempted[k])
  /\ justfiles[attempted[k]].fallback
  /\ attempted[k] # Root

\* After attempt k, resolution is retried from the parent directory.
Retried(k) ==
  IF Len(searched) > k
  THEN searched[k + 1] = attempted[k] - 1
  ELSE run_pc = "loop" /\ path = attempted[k] - 1

\* Attempt k was the last, and run returned what it came to.
ReturnedAt(k) ==
  /\ k = Len(attempted)
  /\ Done
  /\ returned = Result(run_inner([justfile |-> attempted[k]]).err)

\* C10 as stated: the fallback setting alone triggers the retry.
C10_FallbackSettingRetries ==
  \A k \in 1..Len(attempted) :
    IF FallbackApplies(k) THEN Retried(k) ELSE ReturnedAt(k)

\* C10: when run walks (the unstable flag is set and the search starts from
\* the invocation directory or a search directory), a justfile whose
\* fallback setting is true and which fails on an unknown recipe in a
\* directory that has a parent is followed by a retry from that parent; in
\* every other case the result of the justfile is returned at once and no
\* other justfile is attempted.
C10_FallbackRetriesWhenWalking ==
  \A k \in 1..Len(attempted) :
    IF Walks /\ FallbackApplies(k) THEN Retried(k) ELSE ReturnedAt(k)

\* A run that retried from the parent directory and came to an end, and
\* whose first justfile would not have been retried without its setting.
C10_RetriedRun ==
  /\ Done
  /\ Len(attempted) >= 2
  /\ FallbackApplies(1)
  /\ searched[2] = attempted[1] - 1

----------------------------------------------------------------------------
(* SpecExpected: item lines over names, an attribute, `:=`, `:`, `@`,       *)
(* brackets, comments and line ends, for the expected-token set.             *)

MaxExpectedLen == 3

ExpectedAlphabet ==
  {<<ident_a>>, <<Id("linux")>>, <<ColonEquals>>, <<Tok("Colon")>>,
   <<Tok("Eol")>>, <<Token("Comment", <<"#", "c">>)>>, <<Tok("Whitespace")>>,
   <<Tok("At")>>, <<Tok("BracketL")>>, <<Tok("BracketR")>>,
   <<Tok("Plus")>>, <<Tok("ParenL")>>}

InitExpected == InitParser(<<>>)

LexExpected == Lex(ExpectedAlphabet, MaxExpectedLen)

NextExpected == LexExpected \/ LexEof \/ ParseBegin \/ ParseItem

SpecExpected == InitExpected /\ [][NextExpected]_vars

\* The kind of the next significant token of the parser.
NextKind == tokens[SigFrom(tokens, parser.next + 1)].kind

\* C11 as stated: at any point the expected set holds exactly the kinds a
\* lookahead test asked for and did not find since the last consumed token.
C11_ExpectedIsMissed == parser.expected = parser.missed

\* C11 as stated, for the report: an UnexpectedToken error never lists in its
\* expected set the kind of the token it found.
C11_FoundNotExpected ==
  parser.err.kind = "UnexpectedToken" =>
    parser.err.found \notin parser.err.expected

\* What the code keeps: every kind asked for and not found since the last
\* consumed token is in the expected set, and an UnexpectedToken error
\* reports the expected set without ByteOrderMark, is positioned at the next
\* significant token and names its kind as found.
C11_CodeExpectedCoversMissed ==
  /\ parser.missed \subseteq parser.expected
  /\ parser.err.kind = "UnexpectedToken" =>
       /\ parser.err.expected = parser.expected \ {"ByteOrderMark"}
       /\ parser.err.at = SigFrom(tokens, parser.next + 1)
       /\ parser.err.found = NextKind

----------------------------------------------------------------------------
(* SpecKeyword: a first line that starts with `set`, `alias`, `export` or a  *)
(* plain name, followed by names, `:=`, `:`, a comment, line ends.           *)

\* The lexer as Lex, and a comment runs to the end of its line: what follows
\* a Comment token starts with Eol.
LexLines(alphabet, maxLen) ==
  /\ pc = "lex"
  /\ lexed < maxLen
  /\ \E phrase \in alphabet :
       /\ \/ tokens = <<>>
          \/ tokens[Len(tokens)].kind # "Comment"
          \/ phrase[1].kind = "Eol"
       /\ tokens' = tokens \o phrase
  /\ lexed' = lexed + 1
  /\ UNCHANGED <<pc, parser, items, eol_since_last_comment, result>>
  /\ UNCHANGED <<evalVars, runVars>>

MaxKeywordLen == 4

LineLeaders == {"set", "alias", "export", "a"}

KeywordAlphabet ==
  {<<ident_a>>, <<Id("fallback")>>, <<ColonEquals>>, <<Tok("Colon")>>,
   <<Tok("Eol")>>, <<Token("Comment", <<"#", "c">>)>>, <<Tok("Whitespace")>>,
   <<Tok("Equals")>>, <<Id("true")>>}

InitKeyword == \E leader \in LineLeaders : InitParser(<<Id(leader)>>)

LexKeyword == LexLines(KeywordAlphabet, MaxKeywordLen)

NextKeyword == LexKeyword \/ LexEof \/ ParseBegin \/ ParseItem

SpecKeyword == InitKeyword /\ [][NextKeyword]_vars

IsSignificant(t) == t.kind # "Whitespace"

\* The kind of the i-th significant token of the stream, "" past its end.
KindAt(i) ==
  IF i <= Len(SelectSeq(tokens, IsSignificant))
  THEN SelectSeq(tokens, IsSignificant)[i].kind
  ELSE ""

\* The windows of C12 after the line-leading identifier.
NameThenColonEquals == KindAt(2) = "Identifier" /\ KindAt(3) = "ColonEquals"

NameThenLineEnd ==
  KindAt(2) = "Identifier" /\ KindAt(3) \in {"Comment", "Eol", "Eof"}

\* What C12 has the first iteration of parse_ast come to, from the parser
\* p at the line-leading identifier: the statement its window selects.
LeaderParsedAs(p) ==
  CASE /\ tokens[1].lexeme = "set"
       /\ NameThenColonEquals \/ NameThenLineEnd ->
         Push(parse_set(p), <<>>, FALSE)
    [] tokens[1].lexeme = "alias" /\ NameThenColonEquals ->
         Push(parse_alias(p, {}), <<>>, FALSE)
    [] tokens[1].lexeme = "export" /\ NameThenColonEquals ->
         Push(parse_assignment(presume_keyword(p, "export"), TRUE), <<>>,
              FALSE)
    [] OTHER ->
         IF KindAt(2) = "ColonEquals"
         THEN Push(parse_assignment(p, FALSE), <<>>, FALSE)
         ELSE Push(parse_recipe(p, <<>>, FALSE, {}), <<>>, FALSE)

\* The first iteration of the loop of parse_ast is about to run.
AtLeader == pc = "loop" /\ parser.next = 0

\* C12: the line-leading identifier starts a setting only when it is `set`
\* followed by a name and `:=`, a comment, an end of line or the end of file;
\* an alias or an exported assignment only when it is `alias` or `export`
\* followed by a name and `:=`; in every other case it is the target of an
\* assignment when `:=` follows it, and else the name of a recipe.
C12_KeywordWindows ==
  [][AtLeader =>
       /\ parser' = LeaderParsedAs(parser).p
       /\ items' = LeaderParsedAs(parser).items]_vars

\* Parsed justfiles whose first line is a recipe named `set`, `alias` or
\* `export` that takes a parameter.
C12_RecipeNamedByKeyword ==
  /\ Returned
  /\ result = "Ok"
  /\ items # <<>>
  /\ items[1].type = "Recipe"
  /\ items[1].name \in {"set", "alias", "export"}
  /\ Len(items[1].parameters) = 1

----------------------------------------------------------------------------
(* SpecCook: assignments `x := s` whose value s is any string literal the   *)
(* lexer can produce, of the four quoted kinds, with contents of up to       *)
(* MaxCookLen characters.                                                    *)

MaxCookLen == 3

\* The texts of up to n characters.
Texts(chars, n) == UNION {[1..k -> chars] : k \in 0..n}

RECURSIVE LexScan(_, _, _, _, _)
\* The loop of the lexer over the contents s of a string that opened with
\* delim: a backslash escapes the next character when the kind processes
\* escapes, and the first unescaped delimiter ends the token.  TRUE when
\* that delimiter is the one after the last character of s.
LexScan(escapes, delim, s, i, escape) ==
  IF i > Len(s) THEN ~escape
  ELSE IF escapes /\ s[i] = BS /\ ~escape
  THEN LexScan(escapes, delim, s, i + 1, TRUE)
  ELSE IF ~escape /\ StartsWith(SubSeq(s, i, Len(s)) \o delim, delim)
  THEN FALSE
  ELSE LexScan(escapes, delim, s, i + 1, FALSE)

\* The string tokens with the given delimiters and contents over chars.
StringTokens(delims, chars, n) ==
  {Token("StringToken", delim \o s \o delim) :
     <<delim, s>> \in {ds \in delims \X Texts(chars, n) :
                         LexScan(ds[1][1] = Q2, ds[1], ds[2], 1, FALSE)}}

QuotedDelimiters == {<<Q2>>, <<Q2, Q2, Q2>>, <<Q1>>, <<Q1, Q1, Q1>>}

CookChars == {"n", "r", "t", "x", BS, NL, Q2, Q1}

CookAlphabet ==
  {<<t>> : t \in StringTokens(QuotedDelimiters, CookChars, MaxCookLen)}

InitCook == InitParser(<<ident_x, ColonEquals>>)

LexCook == Lex(CookAlphabet, 1)

NextCook == LexCook \/ LexEof \/ ParseBegin \/ ParseItem

SpecCook == InitCook /\ [][NextCook]_vars

\* The value of each escape pair: the character after the backslash, and
\* what the pair stands for (nothing for a newline).
EscapeValue ==
  [c \in {"n", "r", "t", BS, Q2, NL} |->
     CASE c = "n" -> <<NL>>
       [] c = "r" -> <<CR>>
       [] c = "t" -> <<TAB>>
       [] c = BS  -> <<BS>>
       [] c = Q2  -> <<Q2>>
       [] c = NL  -> <<>>]

RECURSIVE Unescaped(_)
\* The text with every escape pair replaced by its value and every other
\* character copied, or <<"invalid", c>> at the first backslash followed by
\* a character c that forms no escape pair.
Unescaped(s) ==
  IF s = <<>> THEN <<"ok", <<>>>>
  ELSE IF s[1] # BS
  THEN LET rest == Unescaped(Tail(s))
       IN IF rest[1] = "ok" THEN <<"ok", <<s[1]>> \o rest[2]>> ELSE rest
  ELSE IF Len(s) = 1 THEN <<"ok", <<>>>>
  ELSE IF s[2] \notin DOMAIN EscapeValue THEN <<"invalid", s[2]>>
  ELSE LET rest == Unescaped(SubSeq(s, 3, Len(s)))
       IN IF rest[1] = "ok"
          THEN <<"ok", EscapeValue[s[2]] \o rest[2]>> ELSE rest

\* The string literal of the assignment has been parsed.
StringParsed == Returned /\ Len(tokens) = 4 /\ tokens[3].kind = "StringToken"

\* C13: when the assignment of a double-quoted or triple-double-quoted
\* string has been parsed, the cooked value is the (unindented) contents
\* with each escape pair replaced by its value, a backslash and the newline
\* after it removed and every other character copied, or the parse failed
\* with InvalidEscapeSequence naming the first character after a backslash
\* that forms no pair; the cooked value of a single-quoted string is its raw
\* contents, and no single-quoted string fails or has an escape replaced.
C13_Cooked ==
  StringParsed =>
    LET lexeme == tokens[3].lexeme
        kind == StringKind_from_token_start(lexeme)
        raw == Contents(lexeme, kind)
        text == IF kind.indented THEN unindent(raw) ELSE raw
        value == Unescaped(text)
        literal == items[1].value.string_literal
    IN CASE kind.delimiter = "QuoteDouble" /\ value[1] = "ok" ->
              /\ result = "Ok"
              /\ literal.raw = raw
              /\ literal.cooked = value[2]
         [] kind.delimiter = "QuoteDouble" /\ value[1] = "invalid" ->
              /\ result = "Err"
              /\ parser.err.kind = "InvalidEscapeSequence"
              /\ parser.err.name = value[2]
              /\ parser.err.at = 3
         [] kind.delimiter = "QuoteSingle" ->
              /\ result = "Ok"
              /\ literal.raw = raw
              /\ literal.cooked = text
              /\ ~kind.indented => literal.cooked = raw

\* A cooked string where an escape pair has been replaced and a plain
\* character copied.
C13_EscapesCooked ==
  /\ StringParsed /\ result = "Ok"
  /\ tokens[3].lexeme = <<Q2, BS, "t", "x", Q2>>
  /\ items[1].value.string_literal.cooked = <<TAB, "x">>

----------------------------------------------------------------------------
(* SpecIndent: assignments `x := s` whose value s is any indented string    *)
(* or indented backtick the lexer can produce, with contents of up to        *)
(* MaxIndentLen characters.                                                  *)

MaxIndentLen == 5

IndentedDelimiters == {<<Q2, Q2, Q2>>, <<Q1, Q1, Q1>>}

IndentChars == {"t", "a", BS, NL, TAB}

IndentAlphabet ==
  {<<t>> : t \in StringTokens(IndentedDelimiters, IndentChars, MaxIndentLen)}
  \cup {<<Token("Backtick", t.lexeme)>> :
          t \in StringTokens({<<BT, BT, BT>>}, IndentChars, MaxIndentLen)}

InitIndent == InitParser(<<ident_x, ColonEquals>>)

LexIndent == Lex(IndentAlphabet, 1)

NextIndent == LexIndent \/ LexEof \/ ParseBegin \/ ParseItem

SpecIndent == InitIndent /\ [][NextIndent]_vars

RECURSIVE Pairs(_)
\* The characters of a text that follow an unescaped backslash, in order.
Pairs(s) ==
  IF Len(s) < 2 THEN <<>>
  ELSE IF s[1] = BS THEN <<s[2]>> \o Pairs(SubSeq(s, 3, Len(s)))
  ELSE Pairs(Tail(s))

\* The number of the characters of s that are in set.
Count(s, set) == Cardinality({i \in 1..Len(s) : s[i] \in set})

\* The indented literal of the assignment has been parsed.
IndentedParsed ==
  /\ Returned /\ Len(tokens) = 4
  /\ tokens[3].kind \in {"StringToken", "Backtick"}

\* C14: when the assignment of an indented string or backtick has been
\* parsed, the parser has unindented the raw contents and only then
\* processed the escapes of a triple-double-quoted string: the outcome is
\* that of replacing the escape pairs of the unindented contents, unindenting
\* has removed no escape pair, so every tab written \t is in the cooked
\* value beside the raw tabs unindenting has left; the contents of an
\* indented backtick and the cooked value of a triple-single-quoted string
\* are the unindented contents, with every backslash.
C14_UnindentedThenCooked ==
  IndentedParsed =>
    LET lexeme == tokens[3].lexeme
        kind == StringKind_from_token_start(lexeme)
        raw == Contents(lexeme, kind)
        text == unindent(raw)
        value == Unescaped(text)
        expression == items[1].value
    IN /\ kind.indented
       /\ Pairs(text) = Pairs(raw)
       /\ CASE kind.delimiter = "QuoteDouble" /\ value[1] = "ok" ->
                 /\ result = "Ok"
                 /\ expression.string_literal.cooked = value[2]
                 /\ Count(expression.string_literal.cooked, {TAB}) =
                      Count(text, {TAB}) + Count(Pairs(raw), {"t"})
            [] kind.delimiter = "QuoteDouble" /\ value[1] = "invalid" ->
                 /\ result = "Err"
                 /\ parser.err.kind = "InvalidEscapeSequence"
            [] kind.delimiter = "QuoteSingle" ->
                 /\ result = "Ok"
                 /\ expression.string_literal.cooked = text
            [] kind.delimiter = "Backtick" ->
                 /\ result = "Ok"
                 /\ expression.type = "Backtick"
                 /\ expression.contents = text
                 /\ Count(expression.contents, {BS}) = Count(raw, {BS})

\* A triple-double-quoted string whose first line starts with the escape \t
\* and whose second line starts with a tab: no indentation is common, and
\* both tabs are in the cooked value.
C14_EscapedTabKept ==
  /\ IndentedParsed /\ result = "Ok"
  /\ tokens[3].lexeme = <<Q2, Q2, Q2, BS, "t", NL, TAB, "a", Q2, Q2, Q2>>
  /\ items[1].value.string_literal.cooked = <<TAB, NL, TAB, "a">>

----------------------------------------------------------------------------
(* SpecDeps: recipe lines `foo: ...` whose dependency list is any run of    *)
(* dependencies, plain or with an argument, and `&&` markers.                *)

MaxDepsLen == 5

AmpersandAmpersand == Tok("AmpersandAmpersand")

DepsAlphabet ==
  {<<ident_a>>, <<ident_b>>,
   <<Tok("ParenL"), ident_b, String_s, Tok("ParenR")>>,
   <<AmpersandAmpersand>>, <<Eol>>}

InitDeps == InitParser(<<foo, Tok("Colon")>>)

LexDeps == Lex(DepsAlphabet, MaxDepsLen)

NextDeps == LexDeps \/ LexEof \/ ParseBegin \/ ParseItem

SpecDeps == InitDeps /\ [][NextDeps]_vars

\* The token that ends the line of the recipe header.
HeaderEnd ==
  CHOOSE e \in 3..Len(tokens) :
    /\ tokens[e].kind \in {"Eol", "Eof"}
    /\ \A i \in 3..e - 1 : tokens[i].kind \notin {"Eol", "Eof"}

\* The tokens of the header line that start a dependency: a name outside
\* parentheses, or an opening parenthesis.
DependencyStarts ==
  {i \in 3..HeaderEnd - 1 :
     \/ tokens[i].kind = "ParenL"
     \/ tokens[i].kind = "Identifier" /\ tokens[i - 1].kind # "ParenL"}

\* The recipe a dependency that starts at token i names.
DependencyName(i) ==
  IF tokens[i].kind = "ParenL" THEN tokens[i + 1].lexeme ELSE tokens[i].lexeme

\* The `&&` markers of the header line.
Markers ==
  {i \in 3..HeaderEnd - 1 : tokens[i].kind = "AmpersandAmpersand"}

\* The k-th of a set of token indices, in source order.
Nth(set, k) == CHOOSE i \in set : Cardinality({j \in set : j < i}) = k - 1

\* The recipe `foo` has been parsed.
RecipeParsed ==
  /\ pc \in {"loop", "returned"}
  /\ Len(items) >= 1
  /\ items[1].type = "Recipe"

\* C15: when the recipe has been parsed, its dependencies are those of the
\* header line in source order, priors is the number of them before the
\* `&&` marker, or of all of them when there is no marker, so that
\* 0 <= priors <= Len(dependencies), and with a marker a dependency follows
\* it, Len(dependencies) > priors; a header line with a marker that no
\* dependency follows fails to parse with UnexpectedToken.
C15_Priors ==
  /\ RecipeParsed =>
       LET recipe == items[1]
       IN /\ Cardinality(Markers) <= 1
          /\ Len(recipe.dependencies) = Cardinality(DependencyStarts)
          /\ \A k \in 1..Len(recipe.dependencies) :
               recipe.dependencies[k].recipe =
                 DependencyName(Nth(DependencyStarts, k))
          /\ recipe.priors =
               IF Markers = {} THEN Cardinality(DependencyStarts)
               ELSE Cardinality({i \in DependencyStarts :
                                   \A m \in Markers : i < m})
          /\ 0 <= recipe.priors
          /\ recipe.priors <= Len(recipe.dependencies)
          /\ Markers # {} => Len(recipe.dependencies) > recipe.priors
  /\ Returned /\ (\E m \in Markers : \A i \in DependencyStarts : i < m) =>
       /\ result = "Err"
       /\ parser.err.kind = "UnexpectedToken"
       /\ items = <<>>

\* A recipe with a prior, the marker and two subsequents, one with an
\* argument.
C15_PriorAndSubsequents ==
  /\ RecipeParsed /\ result = "Ok"
  /\ Markers # {}
  /\ items[1].priors = 1
  /\ Len(items[1].dependencies) = 3
  /\ items[1].dependencies[2].arguments # <<>>

----------------------------------------------------------------------------
(* SpecBody: the recipe `foo:` with an indented body whose lines are any    *)
(* run of text, interpolations and ends of line.                             *)

MaxBodyLen == 6

Text_t == Token("Text", <<"t">>)
Text_u == Token("Text", <<"u">>)

BodyAlphabet ==
  {<<Text_t>>, <<Text_u>>,
   <<Tok("InterpolationStart"), ident_a, Tok("InterpolationEnd")>>,
   <<Eol>>}

InitBody == InitParser(<<foo, Tok("Colon"), Eol, Tok("Indent")>>)

\* The lexer emits one more phrase of the body; the line that opens the
\* body is not empty.
LexBody ==
  /\ lexed = 0 => tokens[Len(tokens)].kind = "Indent"
  /\ Lex(IF lexed = 0 THEN BodyAlphabet \ {<<Eol>>} ELSE BodyAlphabet,
         MaxBodyLen)

\* The lexer ends the body with its Dedent, and the stream with Eof.
LexBodyEnd ==
  /\ pc = "lex"
  /\ lexed >= 1
  /\ tokens' = tokens \o <<Tok("Dedent"), Tok("Eof")>>
  /\ pc' = "lexed"
  /\ UNCHANGED <<lexed, parser, items, eol_since_last_comment, result>>
  /\ UNCHANGED <<evalVars, runVars>>

NextBody == LexBody \/ LexBodyEnd \/ ParseBegin \/ ParseItem

SpecBody == InitBody /\ [][NextBody]_vars

RECURSIVE SourceLines(_, _, _)
\* The lines of the body in the token stream from token i on, each the
\* sequence of the tokens that start its fragments: a line ends at its Eol,
\* and the last one at the Dedent.
SourceLines(i, line, acc) ==
  IF tokens[i].kind = "Dedent"
  THEN IF line = <<>> THEN acc ELSE Append(acc, line)
  ELSE IF tokens[i].kind = "Eol"
  THEN SourceLines(i + 1, <<>>, Append(acc, line))
  ELSE IF tokens[i].kind = "InterpolationStart"
  THEN SourceLines(i + 3, Append(line, i), acc)
  ELSE SourceLines(i + 1, Append(line, i), acc)

\* The fragment is the one that starts at token i.
FragmentOf(fragment, i) ==
  IF tokens[i].kind = "Text"
  THEN /\ fragment.type = "Text"
       /\ fragment.token = i
       /\ fragment.lexeme = tokens[i].lexeme
  ELSE /\ fragment.type = "Interpolation"
       /\ fragment.expression = Variable(tokens[i + 1].lexeme)

\* The recipe and its body have been parsed.
BodyParsed == Returned /\ tokens[Len(tokens) - 1].kind = "Dedent"

\* C16: when the recipe has been parsed, its body is the lines of the
\* source up to the last line that is not empty: every line of the body is
\* the source line at its place with its fragments in order, empty lines
\* between others included, the lines left out are all empty, and the body
\* does not end with an empty line.
C16_TrailingEmptyLinesTrimmed ==
  BodyParsed =>
    LET lines == SourceLines(5, <<>>, <<>>)
        body == items[1].body
    IN /\ result = "Ok"
       /\ Len(items) = 1 /\ items[1].type = "Recipe"
       /\ Len(body) <= Len(lines)
       /\ \A k \in 1..Len(body) :
            /\ Len(body[k].fragments) = Len(lines[k])
            /\ \A f \in 1..Len(lines[k]) :
                 FragmentOf(body[k].fragments[f], lines[k][f])
       /\ \A k \in Len(body) + 1..Len(lines) : lines[k] = <<>>
       /\ body # <<>> => body[Len(body)].fragments # <<>>

\* A body of three lines, the second one empty, parsed from a source whose
\* body goes on with an empty line.
C16_InnerEmptyLineKept ==
  /\ BodyParsed /\ result = "Ok"
  /\ Len(items[1].body) = 3
  /\ items[1].body[2].fragments = <<>>
  /\ Len(SourceLines(5, <<>>, <<>>)) = 4

----------------------------------------------------------------------------
(* SpecJoin: the builtin `join` called on a base and one to 1 + MaxAnd      *)
(* further segments, each a short path.                                      *)

MaxAnd == 2

Sep == "/"

\* Utf8PathBuf::push, were a separator added after every non-empty path.
Utf8PathBuf_push_AlwaysSeparating(self, arg) ==
  IF StartsWith(arg, <<Sep>>) THEN arg
  ELSE IF self # <<>> THEN self \o <<Sep>> \o arg
  ELSE self \o arg

\* Utf8PathBuf::push (Path::join is push on a copy): an absolute arg
\* replaces self; otherwise arg is appended, after a separator when self
\* is not empty and does not end with one.
Utf8PathBuf_push(self, arg) ==
  IF StartsWith(arg, <<Sep>>) THEN arg
  ELSE IF self # <<>> /\ self[Len(self)] # Sep THEN self \o <<Sep>> \o arg
  ELSE self \o arg

RECURSIVE PushAll(_, _)
\* `for arg in and { result.push(arg); }`
PushAll(buf, and) ==
  IF and = <<>> THEN buf
  ELSE PushAll(Utf8PathBuf_push(buf, Head(and)), Tail(and))

\* function::join
join(ctx, base, with, and) == Ok(PushAll(Utf8PathBuf_push(base, with), and))

Segments ==
  {<<>>, <<"a">>, <<"a", Sep>>, <<"b">>, <<Sep, "b">>, <<"c">>}

\* The evaluator calls join with a base and further segments: the one call
\* of the expression it evaluates.
CallJoin ==
  /\ evaluated = {}
  /\ \E base \in Segments, with \in Segments :
       \E and \in Texts(Segments, MaxAnd) :
         /\ get("join") # "None"
         /\ 2 + Len(and) >= Function_argc(get("join")).min
         /\ 2 + Len(and) <= Function_argc(get("join")).max
         /\ evaluated' =
              {[function |-> "join", context |-> context,
                arguments |-> <<base, with>> \o and,
                result |-> join(context, base, with, and)]}
  /\ UNCHANGED <<context, process, parseVars, runVars>>

InitJoin == NoParse(<<>>) /\ NoRun /\ NoEvaluation

NextJoin == CallJoin

SpecJoin == InitJoin /\ [][NextJoin]_vars

RECURSIVE Folded(_, _, _)
\* The segments from the second on folded into acc, left to right, by a
\* rule for one segment.
Folded(Rule(_, _), acc, segments) ==
  IF segments = <<>> THEN acc
  ELSE Folded(Rule, Rule(acc, Head(segments)), Tail(segments))

\* An absolute segment discards acc; any other is appended with exactly one
\* separator between acc and it.
OneSeparator(acc, segment) ==
  IF StartsWith(segment, <<Sep>>) THEN segment
  ELSE IF EndsWith(acc, <<Sep>>) THEN acc \o segment
  ELSE acc \o <<Sep>> \o segment

\* The same, but a segment appended to the empty path is the result.
OneSeparatorUnlessEmpty(acc, segment) ==
  IF acc = <<>> THEN segment ELSE OneSeparator(acc, segment)

JoinExamples ==
  \A call \in evaluated :
    /\ call.arguments = <<<<"a", Sep>>, <<Sep, "b">>>> =>
         call.result = Ok(<<Sep, "b">>)
    /\ call.arguments = <<<<"a">>, <<"b">>, <<"c">>>> =>
         call.result = Ok(<<"a", Sep, "b", Sep, "c">>)

\* C17, as stated: join returns its segments folded left to right, an
\* absolute segment discarding what is accumulated and any other appended
\* with exactly one separator between the accumulated path and it.
C17_JoinOneSeparator ==
  /\ JoinExamples
  /\ \A call \in evaluated :
       call.result =
         Ok(Folded(OneSeparator, call.arguments[1], Tail(call.arguments)))

\* C17, amended: join returns its segments folded left to right, an
\* absolute segment discarding what is accumulated, any other appended to a
\* non-empty accumulated path with exactly one separator between them, and
\* appended to the empty path without a separator.
C17_JoinOneSeparatorUnlessEmpty ==
  /\ JoinExamples
  /\ \A call \in evaluated :
       call.result =
         Ok(Folded(OneSeparatorUnlessEmpty, call.arguments[1],
                   Tail(call.arguments)))

\* join("a/", "/b", "c", "") has returned "/b/c/": the absolute segment
\* discarded "a/", and the two others were appended with one separator.
C17_AbsoluteThenRelative ==
  \E call \in evaluated :
    /\ call.arguments = <<<<"a", Sep>>, <<Sep, "b">>, <<"c">>, <<>>>>
    /\ call.result = Ok(<<Sep, "b", Sep, "c", Sep>>)

----------------------------------------------------------------------------
(* SpecEnv: env_var and env_var_or_default called with any dotenv map in    *)
(* the FunctionContext, while the process environment is set and unset.      *)

\* The values of a dotenv map are strings; a process variable is any
\* OsString (Values).
DotenvValues == {<<"x">>, <<"y">>}

DotenvMaps == UNION {[keys -> DotenvValues] : keys \in SUBSET Keys}

Default == <<"z">>

InitEnv ==
  /\ NoParse(<<>>)
  /\ NoRun
  /\ context \in [dotenv : DotenvMaps]
  /\ process = [env |-> <<>>, exe |-> <<>>, random |-> <<>>]
  /\ evaluated = {}

\* The evaluator calls env_var or env_var_or_default: the one call of the
\* expression it evaluates.
CallEnv ==
  /\ evaluated = {}
  /\ \E key \in Keys :
       \/ evaluated' =
            {[function |-> "env_var", context |-> context,
              arguments |-> <<key>>,
              result |-> Function_call("env_var", context, <<key>>)]}
       \/ evaluated' =
            {[function |-> "env_var_or_default", context |-> context,
              arguments |-> <<key, Default>>,
              result |-> Function_call("env_var_or_default", context,
                                       <<key, Default>>)]}
  /\ UNCHANGED <<context, process, parseVars, runVars>>

NextEnv == CallEnv \/ SetVar \/ RemoveVar

SpecEnv == InitEnv /\ [][NextEnv]_vars

NotPresent(key) ==
  Err(<<"environment variable ", BT>> \o key \o <<BT, " not present">>)

\* What a lookup of key returns by the rule: the dotenv value; else the
\* process value, when there is one; else env_var fails and
\* env_var_or_default returns the default.
DotenvThenProcess(call) ==
  LET key == call.arguments[1]
  IN IF key \in DOMAIN call.context.dotenv
     THEN call.result = Ok(call.context.dotenv[key])
     ELSE IF key \in DOMAIN process.env
     THEN call.result = Ok(process.env[key])
     ELSE IF call.function = "env_var"
     THEN call.result = NotPresent(key)
     ELSE call.result = Ok(call.arguments[2])

\* The same, but a process value that is not unicode is an error that
\* carries it.
DotenvThenUnicodeProcess(call) ==
  LET key == call.arguments[1]
  IN IF /\ key \notin DOMAIN call.context.dotenv
        /\ key \in DOMAIN process.env
        /\ ~IsUnicode(process.env[key])
     THEN call.result =
            Err(<<"environment variable ", BT>> \o key
                  \o <<BT, " not unicode: ">> \o process.env[key])
     ELSE DotenvThenProcess(call)

\* C18, as stated: a call of env_var or env_var_or_default returns the
\* dotenv value of the key when the dotenv map has it, whatever the process
\* environment holds; otherwise the value of the process variable when it is
\* present; and with the key in neither, env_var fails with `not present`
\* and env_var_or_default returns the default.
C18_DotenvBeforeProcess ==
  [][\A call \in evaluated' \ evaluated : DotenvThenProcess(call)]_vars

\* C18, amended: the same, but a process variable that is present with a
\* value that is not unicode makes both fail with `not unicode`.
C18_DotenvBeforeUnicodeProcess ==
  [][\A call \in evaluated' \ evaluated : DotenvThenUnicodeProcess(call)]_vars

\* env_var has returned the dotenv value of a key the process environment
\* holds with another value.
C18_DotenvShadowsProcess ==
  \E call \in evaluated :
    LET key == call.arguments[1]
    IN /\ call.function = "env_var"
       /\ key \in DOMAIN call.context.dotenv
       /\ key \in DOMAIN process.env
       /\ process.env[key] # call.context.dotenv[key]
       /\ call.result = Ok(call.context.dotenv[key])

----------------------------------------------------------------------------
(* SpecCase: kebabcase and shoutysnakecase called on every string of up to  *)
(* MaxCaseLen ASCII letters, lowercase and uppercase.                        *)

MaxCaseLen == 6

\* The letters, lowercase and uppercase in the same order.
LowercaseLetters == <<"a", "b", "f", "o", "r">>
UppercaseLetters == <<"A", "B", "F", "O", "R">>

LetterIndex(letters, c) == CHOOSE i \in 1..Len(letters) : letters[i] = c

\* char::is_lowercase, char::is_uppercase
is_lowercase(c) == \E i \in 1..Len(LowercaseLetters) : LowercaseLetters[i] = c
is_uppercase(c) == \E i \in 1..Len(UppercaseLetters) : UppercaseLetters[i] = c

\* char::to_lowercase, char::to_uppercase
to_lowercase(c) ==
  IF is_uppercase(c) THEN LowercaseLetters[LetterIndex(UppercaseLetters, c)]
  ELSE c
to_uppercase(c) ==
  IF is_lowercase(c) THEN UppercaseLetters[LetterIndex(LowercaseLetters, c)]
  ELSE c

RECURSIVE heck_words(_, _, _, _, _)
\* The words heck's transform splits a run of letters into, scanning from
\* character i with the current word starting at init: a word ends before
\* an uppercase letter that follows a lowercase one, and before the last
\* uppercase letter of a run that a lowercase letter follows.
heck_words(word, i, init, mode, words) ==
  IF i > Len(word) THEN words
  ELSE IF i = Len(word) THEN Append(words, SubSeq(word, init, Len(word)))
  ELSE IF is_lowercase(word[i]) /\ is_uppercase(word[i + 1])
  THEN heck_words(word, i + 1, i + 1, "Boundary",
                  Append(words, SubSeq(word, init, i)))
  ELSE IF /\ mode = "Uppercase"
          /\ is_uppercase(word[i])
          /\ is_lowercase(word[i + 1])
  THEN heck_words(word, i + 1, i, "Boundary",
                  Append(words, SubSeq(word, init, i - 1)))
  ELSE heck_words(word, i + 1, init,
                  IF is_lowercase(word[i]) THEN "Lowercase"
                  ELSE IF is_uppercase(word[i]) THEN "Uppercase"
                  ELSE mode,
                  words)

RECURSIVE heck_join(_, _, _)
\* The words, each letter made uppercase (shouty) or lowercase, joined by
\* the separator.
heck_join(words, shouty, separator) ==
  IF words = <<>> THEN <<>>
  ELSE [i \in 1..Len(words[1]) |->
          IF shouty THEN to_uppercase(words[1][i])
          ELSE to_lowercase(words[1][i])]
       \o (IF Len(words) > 1 THEN <<separator>> ELSE <<>>)
       \o heck_join(Tail(words), shouty, separator)

\* function::kebabcase, were the string one word.
kebabcase_OneWord(ctx, s) == Ok([i \in 1..Len(s) |-> to_lowercase(s[i])])

\* function::kebabcase: str::to_kebab_case
kebabcase(ctx, s) ==
  Ok(heck_join(heck_words(s, 1, 1, "Boundary", <<>>), FALSE, "-"))

\* function::shoutysnakecase: str::to_shouty_snake_case
shoutysnakecase(ctx, s) ==
  Ok(heck_join(heck_words(s, 1, 1, "Boundary", <<>>), TRUE, "_"))

CaseChars == {"f", "o", "a", "r", "F", "B"}

\* The evaluator calls kebabcase or shoutysnakecase: the one call of the
\* expression it evaluates.
CallCase ==
  /\ evaluated = {}
  /\ \E s \in Texts(CaseChars, MaxCaseLen) :
       \/ evaluated' =
            {[function |-> "kebabcase", context |-> context,
              arguments |-> <<s>>, result |-> kebabcase(context, s)]}
       \/ evaluated' =
            {[function |-> "shoutysnakecase", context |-> context,
              arguments |-> <<s>>, result |-> shoutysnakecase(context, s)]}
  /\ UNCHANGED <<context, process, parseVars, runVars>>

InitCase == NoParse(<<>>) /\ NoRun /\ NoEvaluation

NextCase == CallCase

SpecCase == InitCase /\ [][NextCase]_vars

\* A string in camel case: every uppercase letter starts a word and is
\* followed by a lowercase letter of that word.
IsCamelCase(s) ==
  \A i \in 1..Len(s) :
    is_uppercase(s[i]) => i < Len(s) /\ is_lowercase(s[i + 1])

RECURSIVE WordsJoined(_, _, _, _)
\* The letters of a camel-case string from i on, converted, with the
\* separator before each word after the first.
WordsJoined(s, i, Convert(_), separator) ==
  IF i > Len(s) THEN <<>>
  ELSE (IF i > 1 /\ is_uppercase(s[i]) THEN <<separator>> ELSE <<>>)
       \o <<Convert(s[i])>>
       \o WordsJoined(s, i + 1, Convert, separator)

\* C19: a call of kebabcase on a camel-case string of ASCII letters returns
\* its words lowercased and joined by `-`, and a call of shoutysnakecase
\* returns them uppercased and joined by `_`; kebabcase("FooBar") is
\* "foo-bar" and shoutysnakecase("fooBar") is "FOO_BAR".
C19_CamelCaseWords ==
  \A call \in evaluated :
    LET s == call.arguments[1]
    IN /\ IsCamelCase(s) /\ call.function = "kebabcase" =>
            call.result = Ok(WordsJoined(s, 1, to_lowercase, "-"))
       /\ IsCamelCase(s) /\ call.function = "shoutysnakecase" =>
            call.result = Ok(WordsJoined(s, 1, to_uppercase, "_"))
       /\ call.function = "kebabcase"
            /\ s = <<"F", "o", "o", "B", "a", "r">> =>
            call.result = Ok(<<"f", "o", "o", "-", "b", "a", "r">>)
       /\ call.function = "shoutysnakecase"
            /\ s = <<"f", "o", "o", "B", "a", "r">> =>
            call.result = Ok(<<"F", "O", "O", "_", "B", "A", "R">>)

\* kebabcase("FooBar") has returned "foo-bar".
C19_FooBar ==
  \E call \in evaluated :
    /\ call.function = "kebabcase"
    /\ call.arguments = <<<<"F", "o", "o", "B", "a", "r">>>>
    /\ call.result = Ok(<<"f", "o", "o", "-", "b", "a", "r">>)

----------------------------------------------------------------------------
(* Doc comments and the items around them, under SpecDoc.                    *)

\* Token c is a comment that starts its line.
IsCommentLine(c) ==
  /\ tokens[c].kind = "Comment"
  /\ c > 1 => tokens[c - 1].kind = "Eol"

\* The last comment line the parser has consumed is at token c, and no
\* blank line lies between it and the next token to parse.
LastCommentLineNoBlank(c) ==
  /\ c \in 1..parser.next
  /\ IsCommentLine(c)
  /\ \A d \in c + 1..parser.next : ~IsCommentLine(d)
  /\ \A j \in c + 2..parser.next :
       ~(tokens[j].kind = "Eol" /\ tokens[j - 1].kind = "Eol")

\* This step of parse_ast pushed a recipe that has a doc comment.
DocRecipePushed ==
  /\ Pushed({"Recipe"})
  /\ items'[Len(items')].doc # <<>>

IsPrefix(s, t) == Len(s) <= Len(t) /\ SubSeq(t, 1, Len(s)) = s

----------------------------------------------------------------------------
(* SpecSet: lines `set name ...` for every boolean setting, the settings    *)
(* with a value and names that are no setting, followed by `:=`, true,       *)
(* false, a name, a string, a shell, a comment, line ends.                   *)

MaxSetLen == 3

\* Names that are no setting: one that is no keyword, and a keyword.
UnknownSettings == {"shall", "if"}

ValueSettings == {"shell", "tempdir", "windows-shell"}

SettingNames == BoolSettings \cup {"shell", "tempdir"} \cup UnknownSettings

SetAlphabet ==
  {<<ColonEquals>>, <<Id("true")>>, <<Id("false")>>, <<ident_a>>,
   <<String_s>>, <<Tok("BracketL"), String_s, Tok("BracketR")>>,
   <<Eol>>, <<Token("Comment", <<"#", "c">>)>>}

InitSet == \E name \in SettingNames : InitParser(<<Id("set"), Id(name)>>)

LexSet == LexLines(SetAlphabet, MaxSetLen)

NextSet == LexSet \/ LexEof \/ ParseBegin \/ ParseItem

SpecSet == InitSet /\ [][NextSet]_vars

\* The first iteration of parse_ast has run on a stream that begins with a
\* `set` statement: `set`, a name, and `:=` or the end of the line.
SetStatementParsed ==
  /\ pc \in {"loop", "returned"}
  /\ parser.next > 0 \/ result = "Err"
  /\ tokens[3].kind \in {"ColonEquals", "Comment", "Eol", "Eof"}

BareSet == tokens[3].kind \in {"Comment", "Eol", "Eof"}

UnknownSettingReported ==
  /\ result = "Err"
  /\ parser.err.kind = "UnknownSetting"
  /\ parser.err.name = tokens[2].lexeme
  /\ parser.err.at = 2

\* C21: a `set` statement whose name is no known setting fails with
\* UnknownSetting, which carries the name and stands at the name token,
\* with `:=` after the name and without.
C21_UnknownSetting ==
  SetStatementParsed /\ tokens[2].lexeme \notin BoolSettings \cup ValueSettings
    => UnknownSettingReported

\* What the code keeps: with `:=` after the name, whatever follows it.
C21_UnknownSettingBeforeColonEquals ==
  /\ SetStatementParsed
  /\ ~BareSet
  /\ tokens[2].lexeme \notin BoolSettings \cup ValueSettings
  => UnknownSettingReported

\* The bare form of an unknown setting fails, but with UnexpectedToken: `:=`
\* was expected after the name.
C21_BareUnknownSettingUnexpectedToken ==
  /\ SetStatementParsed
  /\ BareSet
  /\ tokens[2].lexeme \in UnknownSettings
  /\ result = "Err"
  /\ parser.err.kind = "UnexpectedToken"
  /\ parser.err.expected = {"ColonEquals"}
  /\ parser.err.at = 3


\* The Set item parse_set makes of the statement `set name := true`.
SetToTrue(name) ==
  parse_set(Parser_new(<<Id("set"), Id(name), ColonEquals, Id("true"),
                         Tok("Eof")>>)).v

ColonEqualsThen(lexemes) ==
  /\ tokens[3].kind = "ColonEquals"
  /\ tokens[4].kind = "Identifier"
  /\ tokens[4].lexeme \in lexemes

\* C22: when a `set` statement of a boolean setting has been parsed, the
\* bare form and the form `:= true` have both given the Set item of
\* `set X := true`, whose value is true, the form `:= false` the value
\* false, and `:=` before any other identifier has failed with
\* ExpectedKeyword that lists true and false and stands at the identifier.
C22_BoolSettings ==
  SetStatementParsed /\ tokens[2].lexeme \in BoolSettings =>
    LET name == tokens[2].lexeme
    IN /\ BareSet \/ ColonEqualsThen({"true"}) =>
            /\ Len(items) >= 1
            /\ items[1] = SetToTrue(name)
            /\ items[1] = Set(name, [bool |-> TRUE])
       /\ ColonEqualsThen({"false"}) =>
            /\ Len(items) >= 1
            /\ items[1] = Set(name, [bool |-> FALSE])
       /\ ColonEqualsThen({"a"}) =>
            /\ result = "Err"
            /\ items = <<>>
            /\ parser.err.kind = "ExpectedKeyword"
            /\ parser.err.expected = {"true", "false"}
            /\ parser.err.at = 4

\* The bare form of a boolean setting parsed to the item of `:= true`, a
\* comment after it.
C22_BareSetParsed ==
  /\ Returned /\ result = "Ok"
  /\ tokens[2].lexeme = "windows-powershell"
  /\ tokens[3].kind = "Comment"
  /\ items[1] = SetToTrue("windows-powershell")

----------------------------------------------------------------------------
(* SpecTrim: the four pattern-trim builtins called on every string of up    *)
(* to MaxTrimLen characters and every pattern of up to MaxPatLen.            *)

MaxTrimLen == 4

MaxPatLen == 2

TrimChars == {"a", "b"}

RECURSIVE str_trim_end_matches(_, _)
\* str::trim_end_matches: the suffixes that match the pattern are removed,
\* one after the other; an empty pattern removes nothing.
str_trim_end_matches(s, pat) ==
  IF pat # <<>> /\ EndsWith(s, pat)
  THEN str_trim_end_matches(SubSeq(s, 1, Len(s) - Len(pat)), pat)
  ELSE s

RECURSIVE str_trim_start_matches(_, _)
\* str::trim_start_matches
str_trim_start_matches(s, pat) ==
  IF pat # <<>> /\ StartsWith(s, pat)
  THEN str_trim_start_matches(SubSeq(s, Len(pat) + 1, Len(s)), pat)
  ELSE s

\* function::trim_end_matches, were one occurrence removed.
trim_end_matches_Once(ctx, s, pat) == trim_end_match(ctx, s, pat)

\* function::trim_end_matches
trim_end_matches(ctx, s, pat) == Ok(str_trim_end_matches(s, pat))

\* function::trim_start_matches
trim_start_matches(ctx, s, pat) == Ok(str_trim_start_matches(s, pat))

\* The evaluator calls one of the four builtins: the one call of the
\* expression it evaluates.
CallTrim ==
  /\ evaluated = {}
  /\ \E s \in Texts(TrimChars, MaxTrimLen), pat \in Texts(TrimChars, MaxPatLen) :
       \E call \in
         {[function |-> "trim_end_match", context |-> context,
           arguments |-> <<s, pat>>,
           result |-> trim_end_match(context, s, pat)],
          [function |-> "trim_start_match", context |-> context,
           arguments |-> <<s, pat>>,
           result |-> trim_start_match(context, s, pat)],
          [function |-> "trim_end_matches", context |-> context,
           arguments |-> <<s, pat>>,
           result |-> trim_end_matches(context, s, pat)],
          [function |-> "trim_start_matches", context |-> context,
           arguments |-> <<s, pat>>,
           result |-> trim_start_matches(context, s, pat)]} :
         evaluated' = {call}
  /\ UNCHANGED <<context, process, parseVars, runVars>>

InitTrim == NoParse(<<>>) /\ NoRun /\ NoEvaluation

NextTrim == CallTrim

SpecTrim == InitTrim /\ [][NextTrim]_vars

RECURSIVE Repeated(_, _)
\* k occurrences of pat, one after the other.
Repeated(pat, k) == IF k = 0 THEN <<>> ELSE pat \o Repeated(pat, k - 1)

\* C23: a call of trim_end_match / trim_start_match returns s without one
\* pat at its end / start when s ends / starts with pat, and s otherwise;
\* a call of trim_end_matches / trim_start_matches returns s without some
\* number of occurrences of pat at its end / start, a result that for a
\* non-empty pat does not end / start with pat and that the same call
\* returns unchanged; the rest of s is in the result as it was.
C23_TrimAffixOrRepeated ==
  \A call \in evaluated :
    LET s == call.arguments[1]
        pat == call.arguments[2]
        r == call.result.value
    IN /\ call.result.ok
       /\ call.function = "trim_end_match" =>
            IF EndsWith(s, pat) THEN s = r \o pat ELSE r = s
       /\ call.function = "trim_start_match" =>
            IF StartsWith(s, pat) THEN s = pat \o r ELSE r = s
       /\ call.function = "trim_end_matches" =>
            /\ \E k \in 0..Len(s) : s = r \o Repeated(pat, k)
            /\ pat # <<>> => ~EndsWith(r, pat)
            /\ trim_end_matches(call.context, r, pat) = Ok(r)
       /\ call.function = "trim_start_matches" =>
            /\ \E k \in 0..Len(s) : s = Repeated(pat, k) \o r
            /\ pat # <<>> => ~StartsWith(r, pat)
            /\ trim_start_matches(call.context, r, pat) = Ok(r)

\* trim_end_matches("baaa", "a") has returned "b" where trim_end_match
\* returns "baa".
C23_RepeatedRemovesAll ==
  \E call \in evaluated :
    /\ call.function = "trim_end_matches"
    /\ call.arguments = <<<<"b", "a", "a", "a">>, <<"a">>>>
    /\ call.result = Ok(<<"b">>)
    /\ trim_end_match(call.context, call.arguments[1], call.arguments[2])
         = Ok(<<"b", "a", "a">>)

----------------------------------------------------------------------------
(* The token an UnexpectedToken error found, under SpecExpected.              *)

UnexpectedTokenReturned ==
  Returned /\ result = "Err" /\ parser.err.kind = "UnexpectedToken"

\* C24: when parsing has failed with UnexpectedToken, the kind of the token
\* it found is not one of the kinds it reports as expected.
C24_FoundNotExpected ==
  UnexpectedTokenReturned =>
    tokens[parser.err.at].kind \notin parser.err.expected

\* What the code keeps: the token found is one of the expected kinds only
\* when it is Eof, which expect_eol looked for, found and left in place.
C24_FoundExpectedOnlyEof ==
  UnexpectedTokenReturned /\ parser.err.found \in parser.err.expected =>
    parser.err.found = "Eof"

\* `[linux]` and the end of the file: Eof is expected, and Eof is found.
C24_EofExpectedAndFound ==
  /\ UnexpectedTokenReturned
  /\ tokens = <<Tok("BracketL"), Id("linux"), Tok("BracketR"), Tok("Eof")>>
  /\ parser.err.found = "Eof"
  /\ "Eof" \in parser.err.expected

----------------------------------------------------------------------------
(* SpecLine: whole statements (an alias, an assignment, an exported          *)
(* assignment, a setting with and without its value, a recipe header),       *)
(* comments and line ends, in any order after a first statement.             *)

MaxLineLen == 3

Statements ==
  {<<Id("alias"), ident_b, ColonEquals, ident_a>>,
   <<ident_a, ColonEquals, ident_a>>,
   <<Id("export"), ident_a, ColonEquals, ident_a>>,
   <<Id("set"), Id("export")>>,
   <<Id("set"), Id("export"), ColonEquals, Id("true")>>,
   <<ident_a, Tok("Colon")>>}

LineAlphabet == Statements \cup {<<Eol>>, <<Token("Comment", <<"#", "c">>)>>}

InitLine == \E statement \in Statements : InitParser(statement)

LexLine == LexLines(LineAlphabet, MaxLineLen)

NextLine == LexLine \/ LexEof \/ ParseBegin \/ ParseItem

SpecLine == InitLine /\ [][NextLine]_vars

\* The parser stands at the start of a line: it has consumed nothing, or the
\* last token it consumed is an Eol.
AtLineStart(p) == p.next = 0 \/ tokens[p.next].kind = "Eol"

\* The parser stands at the start of a line or at the end of the file.
AtLineEnd(p) == AtLineStart(p) \/ tokens[p.next + 1].kind = "Eof"

\* C25: every top-level statement ends its line: when parse_ast has pushed
\* an alias, an assignment, a setting or a recipe and goes on, it has
\* consumed the rest of the line, so that no two statements of a parse come
\* from one line.
C25_StatementEndsLine ==
  [][Pushed({"Alias", "Assignment", "Set", "Recipe"}) => AtLineEnd(parser')]_vars

\* What the code keeps: aliases, assignments and recipes end their line.
C25_CodeStatementEndsLine ==
  [][Pushed({"Alias", "Assignment", "Recipe"}) => AtLineEnd(parser')]_vars

\* What the code keeps: every statement starts its line, but for the one
\* that follows a setting.
C25_CodeStatementStartsLine ==
  [][/\ Pushed({"Alias", "Assignment", "Set", "Recipe"})
     /\ ~AtLineStart(parser)
     => /\ items # <<>>
        /\ Last(items).type = "Set"
        /\ tokens[parser.next].kind # "Comment"]_vars

\* `set export := true a:` has parsed to a setting and a recipe.
C25_TwoStatementsOneLine ==
  /\ Returned /\ result = "Ok"
  /\ tokens = <<Id("set"), Id("export"), ColonEquals, Id("true"),
                ident_a, Tok("Colon"), Tok("Eof")>>
  /\ Len(items) = 2
  /\ items[1].type = "Set" /\ items[2].type = "Recipe"

\* C26: a comment that trails a statement on its line is discarded: every
\* comment parse_ast pushes as an item, which alone can become the doc of a
\* recipe, starts its line.
C26_TrailingCommentDiscarded ==
  [][Pushed({"Comment"}) => AtLineStart(parser)]_vars

\* What the code keeps: a comment pushed as an item starts its line or
\* trails a setting.
C26_CodeTrailingCommentDiscarded ==
  [][Pushed({"Comment"}) /\ ~AtLineStart(parser)
     => items # <<>> /\ Last(items).type = "Set"]_vars

\* `set export # c`, and `a:` on the next line: the comment has become the
\* doc of recipe a.
C26_TrailingCommentIsDoc ==
  /\ Returned /\ result = "Ok"
  /\ tokens = <<Id("set"), Id("export"), Token("Comment", <<"#", "c">>),
                Eol, ident_a, Tok("Colon"), Tok("Eof")>>
  /\ Len(items) = 2
  /\ items[1].type = "Set"
  /\ items[2].type = "Recipe" /\ items[2].doc = <<<<"c">>>>

\* `set export := true # c` has parsed to a setting and a comment item.
C26_TrailingCommentIsItem ==
  /\ Returned /\ result = "Ok"
  /\ tokens = <<Id("set"), Id("export"), ColonEquals, Id("true"),
                Token("Comment", <<"#", "c">>), Tok("Eof")>>
  /\ Len(items) = 2
  /\ items[1].type = "Set" /\ items[2].type = "Comment"

----------------------------------------------------------------------------
(* FairRun: SpecRun, where Subcommand::run, once called, keeps running:     *)
(* the loop is sequential code that nothing suspends.                        *)

FairRun == SpecRun /\ WF_vars(NextRun)

\* This step of the loop ends with a retry.
RetryStep == run_pc = "loop" /\ run_pc' = "loop"

\* The retry goes on from the parent of the directory that holds the
\* justfile just tried, a strict ancestor of every directory a search has
\* started from.
RetryFromParent ==
  /\ attempted' # attempted
  /\ path' = Last(attempted') - 1
  /\ \A i \in 1..Len(searched') : path' < searched'[i]

NoJustfileTwice ==
  \A i, j \in 1..Len(attempted) : attempted[i] = attempted[j] => i = j

\* How the loop can be over: the last justfile ran to Ok, or to an error
\* that asks for no retry, or the search failed, or the last justfile lies
\* in the root directory.
LoopEnd ==
  \/ Len(searched) > Len(attempted)
       /\ Search_find_next(Last(searched)).error # NoError_
       /\ ~returned.ok
  \/ Len(searched) = Len(attempted)
       /\ \/ Succeeds(Last(attempted)) /\ returned.ok
          \/ /\ ~Succeeds(Last(attempted))
             /\ ~returned.ok
             /\ \/ ~UnknownRecipe(Last(attempted))
                \/ ~justfiles[Last(attempted)].fallback
                \/ Last(attempted) = Root

\* C27: the retry loop of Subcommand::run terminates: each retry searches
\* from the parent of the directory of the justfile just tried, a strict
\* ancestor of every directory searched before, no justfile is attempted
\* twice, and the loop ends with success, with an error, with no further
\* justfile found or at the root.
C27_RetryLoopTerminates ==
  /\ [][RetryStep => RetryFromParent]_vars
  /\ [](Walks => NoJustfileTwice)
  /\ [](Walks /\ Done => LoopEnd)
  /\ <>Done

\* The loop has tried the justfile of every directory up to the root, each
\* asking for the fallback, and has ended there.
C27_RetriedUpToRoot ==
  /\ Done /\ Walks
  /\ attempted = <<2, 1, 0>>
  /\ searched = <<2, 1, 0>>
  /\ ~returned.ok

----------------------------------------------------------------------------
(* Parser::parse as a function of the token stream, and the parse of a       *)
(* stream against the parse of its significant tokens, under SpecAny.        *)

RECURSIVE parse_ast_loop(_, _, _)
\* The loop of parse_ast, run to its end: the parser and the items.
parse_ast_loop(p, its, seen_eol) ==
  Let([l \in {parse_item(p, its, seen_eol)} |->
  IF Failed(l.p) THEN [p |-> l.p, items |-> l.items]
  ELSE IF l.break THEN [p |-> parse_ast_end(l.p), items |-> l.items]
  ELSE parse_ast_loop(l.p, l.items, l.eol_since_last_comment)])

\* Parser::parse_ast
parse_ast(p) ==
  Let([b \in {accept(p, "ByteOrderMark")} |->
  IF Failed(b.p) THEN [p |-> b.p, items |-> <<>>]
  ELSE parse_ast_loop(b.p, <<>>, FALSE)])

\* Parser::parse
Parser_parse(toks) == parse_ast(Parser_new(toks))

Significant(toks) == SelectSeq(toks, IsSignificant)

\* The number of significant tokens among the first i tokens.
SignificantIndex(toks, i) ==
  Cardinality({j \in 1..i : IsSignificant(toks[j])})

\* A parameter or a fragment of text, the token it was parsed from counted
\* in significant tokens.
AtSignificant(toks, node) ==
  IF "token" \in DOMAIN node
  THEN [node EXCEPT !.token = SignificantIndex(toks, @)]
  ELSE node

\* An item, the tokens of its parameters and of the text of its body counted
\* in significant tokens.
ItemAtSignificant(toks, item) ==
  IF item.type # "Recipe" THEN item
  ELSE [item EXCEPT
          !.parameters =
            [k \in DOMAIN item.parameters |->
               AtSignificant(toks, item.parameters[k])],
          !.body =
            [l \in DOMAIN item.body |->
               [fragments |->
                  [f \in DOMAIN item.body[l].fragments |->
                     AtSignificant(toks, item.body[l].fragments[f])]]]]

\* What a parse returns: the items of the Ast, or the error, every token
\* they point at counted in significant tokens.
Outcome(p, its) ==
  IF Failed(p)
  THEN [ok |-> FALSE, items |-> <<>>,
        err |-> [p.err EXCEPT !.at = SignificantIndex(p.tokens, @)]]
  ELSE [ok |-> TRUE,
        items |-> [k \in DOMAIN its |-> ItemAtSignificant(p.tokens, its[k])],
        err |-> NoError]

OutcomeOf(toks) ==
  LET parsed == Parser_parse(toks) IN Outcome(parsed.p, parsed.items)

\* C28: the result of a parse does not depend on Whitespace tokens: the
\* stream and the stream without its Whitespace tokens parse to the same
\* items, or fail with the same error at the same significant token.
C28_WhitespaceIgnored ==
  Returned => Outcome(parser, items) = OutcomeOf(Significant(tokens))

\* The steps of the parser return what Parser::parse returns.
C28_StepsAreParse ==
  Returned =>
    /\ parser = Parser_parse(tokens).p
    /\ Failed(parser) \/ items = Parser_parse(tokens).items

\* `a :` with a Whitespace token in it has parsed to recipe a.
C28_RecipeAcrossWhitespace ==
  /\ Returned /\ result = "Ok"
  /\ tokens = <<ident_a, Tok("Whitespace"), Tok("Colon"), Tok("Eof")>>
  /\ Len(items) = 1 /\ items[1].type = "Recipe"

\* `a :=` with a Whitespace token in it has failed at the Eof, the third
\* significant token.
C28_ErrorAcrossWhitespace ==
  /\ Returned /\ result = "Err"
  /\ tokens = <<ident_a, Tok("Whitespace"), ColonEquals, Tok("Eof")>>
  /\ parser.err.at = 4
  /\ OutcomeOf(Significant(tokens)).err.at = 3

----------------------------------------------------------------------------
(* Subcommand::format and Subcommand::init (src/src/subcommand.rs).  A file *)
(* system is a function from the directories to what lies at the justfile   *)
(* path of each: nothing, a file with its contents, or a directory, and      *)
(* what a write there comes to.  A text is the sequence of its pieces.       *)

File(kind, contents, io) == [kind |-> kind, contents |-> contents, io |-> io]

\* Path::is_file
is_file(file) == file.kind = "File"

\* fs::write: the file is created or truncated and written; a write that is
\* denied leaves everything as it is, one that runs out of space leaves an
\* empty file.
fs_write(files, at, contents) ==
  IF files[at].kind = "Directory" \/ files[at].io = "Denied"
  THEN [ok |-> FALSE, files |-> files]
  ELSE IF files[at].io = "Full"
  THEN [ok |-> FALSE,
        files |-> [files EXCEPT ![at] = File("File", <<>>, "Full")]]
  ELSE [ok |-> TRUE,
        files |-> [files EXCEPT ![at] = File("File", contents, "Ok")]]

\* Config::require_unstable
require_unstable(cfg) ==
  IF cfg.unstable THEN NoError_ ELSE Error("Unstable", Root)

\* The text of one item.
ItemText(item) ==
  IF item.type = "Comment" THEN item.contents
  ELSE (IF item.export THEN <<"export", SP>> ELSE <<>>)
         \o <<item.name, SP, ":=", SP, item.value.name>>

RECURSIVE Ast_to_string(_)
\* Display for Ast: the items, a line each.
Ast_to_string(ast) ==
  IF ast = <<>> THEN <<>>
  ELSE ItemText(Head(ast)) \o <<NL>> \o Ast_to_string(Tail(ast))

format_WritingBeforeCheck(cfg, search, src, ast, files) ==
  Let([unstable \in {require_unstable(cfg)} |->
  IF unstable # NoError_ THEN [returned |-> Result(unstable), files |-> files]
  ELSE
  Let([formatted \in {Ast_to_string(ast)} |->
  Let([written \in {fs_write(files, search.justfile, formatted)} |->
  IF cfg.check
  THEN [returned |-> IF formatted = src THEN Result(NoError_)
                     ELSE Result(Error("FormatCheckFoundDiff", search.justfile)),
        files |-> written.files]
  ELSE [returned |-> IF written.ok THEN Result(NoError_)
                     ELSE Result(Error("WriteJustfile", search.justfile)),
        files |-> written.files]])])])

\* Subcommand::format: what it returns, and the file system it leaves.
format(cfg, search, src, ast, files) ==
  Let([unstable \in {require_unstable(cfg)} |->
  IF unstable # NoError_ THEN [returned |-> Result(unstable), files |-> files]
  ELSE
  Let([formatted \in {Ast_to_string(ast)} |->
  IF cfg.check
  THEN [returned |-> IF formatted = src THEN Result(NoError_)
                     ELSE Result(Error("FormatCheckFoundDiff", search.justfile)),
        files |-> files]
  ELSE
  Let([written \in {fs_write(files, search.justfile, formatted)} |->
  [returned |-> IF written.ok THEN Result(NoError_)
                ELSE Result(Error("WriteJustfile", search.justfile)),
   files |-> written.files]])])])

INIT_JUSTFILE ==
  <<"default", ":", NL, SP, SP, SP, SP, "echo", SP, Q1, "Hello, world!", Q1, NL>>

\* Search::init: where the new justfile goes, or an error when the directory
\* asked for does not exist.
Search_init(search_config, invocation_directory, files) ==
  Let([dir \in {IF search_config.kind = "FromInvocationDirectory"
                THEN invocation_directory
                ELSE search_config.directory} |->
  IF dir \in DOMAIN files
  THEN [error |-> NoError_, justfile |-> dir]
  ELSE [error |-> Error("Search", Root), justfile |-> Root]])

init_Overwriting(cfg, files) ==
  Let([search \in {Search_init(cfg.search_config, cfg.invocation_directory,
                               files)} |->
  IF search.error # NoError_
  THEN [returned |-> Result(search.error), files |-> files, search |-> search]
  ELSE
  Let([written \in {fs_write(files, search.justfile, INIT_JUSTFILE)} |->
  [returned |-> IF written.ok THEN Result(NoError_)
                ELSE Result(Error("WriteJustfile", search.justfile)),
   files |-> written.files, search |-> search]])])

\* Subcommand::init: what it returns, the file system it leaves, and the
\* search it made.
init(cfg, files) ==
  Let([search \in {Search_init(cfg.search_config, cfg.invocation_directory,
                               files)} |->
  IF search.error # NoError_
  THEN [returned |-> Result(search.error), files |-> files, search |-> search]
  ELSE IF is_file(files[search.justfile])
  THEN [returned |-> Result(Error("InitExists", search.justfile)),
        files |-> files, search |-> search]
  ELSE
  Let([written \in {fs_write(files, search.justfile, INIT_JUSTFILE)} |->
  [returned |-> IF written.ok THEN Result(NoError_)
                ELSE Result(Error("WriteJustfile", search.justfile)),
   files |-> written.files, search |-> search]])])

----------------------------------------------------------------------------
(* SpecFormat: Subcommand::format called with every Ast of up to            *)
(* MaxFormatItems comments and assignments, on a justfile that holds the     *)
(* text of such an Ast or that text without its spaces, under every          *)
(* configuration.                                                            *)

MaxFormatItems == 2

FormatItems ==
  {Comment(<<"#", "c">>)}
    \cup {[type |-> "Assignment", export |-> export, name |-> "a",
           value |-> Variable("b")] : export \in BOOLEAN}

Asts == UNION {[1..n -> FormatItems] : n \in 0..MaxFormatItems}

IsNoSpace(piece) == piece # SP

Sources ==
  {Ast_to_string(ast) : ast \in Asts}
    \cup {SelectSeq(Ast_to_string(ast), IsNoSpace) : ast \in Asts}

\* The justfile has been loaded and parsed to the Ast `items`; format has not
\* been called.
InitFormat ==
  /\ tokens = <<>> /\ lexed = 0 /\ pc = "returned"
  /\ parser = Parser_new(<<>>)
  /\ items \in Asts
  /\ eol_since_last_comment = FALSE
  /\ result = "Ok"
  /\ NoEvaluation
  /\ config \in [unstable : BOOLEAN, check : BOOLEAN,
                 invocation_directory : {Root},
                 search_config : {[kind |-> "WithJustfile", directory |-> Root]}]
  /\ justfiles \in [{Root} -> {File("File", src, io) :
                                 src \in Sources, io \in {"Ok", "Denied", "Full"}}]
  /\ run_pc = "start"
  /\ path = Root
  /\ unknown_recipes_errors = <<>>
  /\ searched = <<>>
  /\ attempted = <<>>
  /\ returned = Result(NoError_)

\* Subcommand::format is called on the justfile at `path`, with the source
\* loaded from it and the Ast parsed from that.
CallFormat ==
  /\ run_pc = "start"
  /\ \E formatted \in {format(config, [justfile |-> path],
                              justfiles[path].contents, items, justfiles)} :
       /\ returned' = formatted.returned
       /\ justfiles' = formatted.files
  /\ run_pc' = "done"
  /\ UNCHANGED <<config, path, unknown_recipes_errors, searched, attempted>>
  /\ UNCHANGED <<parseVars, evalVars>>

NextFormat == CallFormat

SpecFormat == InitFormat /\ [][NextFormat]_vars

FormatCalled == run_pc = "start" /\ run_pc' = "done"

\* C29: format in check mode never writes the justfile and returns Ok if
\* and only if the text of the Ast equals the loaded source,
\* FormatCheckFoundDiff otherwise; without the unstable flag it fails and
\* leaves the file as it is.
C29_CheckNeverWrites ==
  [][FormatCalled =>
       /\ ~config.unstable =>
            /\ returned' = Result(Error("Unstable", Root))
            /\ justfiles' = justfiles
       /\ config.unstable /\ config.check =>
            /\ justfiles' = justfiles
            /\ returned'.ok <=>
                 Ast_to_string(items) = justfiles[path].contents
            /\ ~returned'.ok =>
                 returned'.err.kind = "FormatCheckFoundDiff"]_vars

\* format in check mode has found the justfile, which could be written,
\* differing from the text of its Ast.
C29_FoundDiff ==
  /\ Done /\ config.unstable /\ config.check
  /\ returned.err.kind = "FormatCheckFoundDiff"
  /\ justfiles[path] = File("File", <<"a", ":=", "b", NL>>, "Ok")
  /\ Ast_to_string(items) = <<"a", SP, ":=", SP, "b", NL>>

----------------------------------------------------------------------------
(* SpecInit: Subcommand::init in a chain of directories, each with a         *)
(* justfile, a directory of that name or nothing at the justfile path.       *)

Nowhere == MaxDepth + 1

InitFiles ==
  {File("Absent", <<>>, io) : io \in {"Ok", "Denied", "Full"}}
    \cup {File("File", contents, io) :
            contents \in {INIT_JUSTFILE, <<"a", ":", NL>>},
            io \in {"Ok", "Denied"}}
    \cup {File("Directory", <<>>, "Denied")}

InitCallInit ==
  /\ NoParse(<<>>)
  /\ NoEvaluation
  /\ config \in [unstable : {FALSE}, check : {FALSE},
                 invocation_directory : {MaxDepth},
                 search_config :
                   SearchConfigs \cup
                     {[kind |-> "FromSearchDirectory", directory |-> Nowhere]}]
  /\ justfiles \in [Dirs -> InitFiles]
  /\ run_pc = "start"
  /\ path = Root
  /\ unknown_recipes_errors = <<>>
  /\ searched = <<>>
  /\ attempted = <<>>
  /\ returned = Result(NoError_)

\* Subcommand::init is called; `path` keeps the justfile path of its search.
CallInit ==
  /\ run_pc = "start"
  /\ \E initialized \in {init(config, justfiles)} :
       /\ returned' = initialized.returned
       /\ justfiles' = initialized.files
       /\ path' = initialized.search.justfile
  /\ run_pc' = "done"
  /\ UNCHANGED <<config, unknown_recipes_errors, searched, attempted>>
  /\ UNCHANGED <<parseVars, evalVars>>

NextInit == CallInit

SpecInit == InitCallInit /\ [][NextInit]_vars

\* init has been called and its search has found where the justfile goes.
InitCalled ==
  /\ run_pc = "start" /\ run_pc' = "done"
  /\ returned'.err.kind # "Search"

\* C30: init never overwrites an existing justfile: when the justfile path
\* holds a file, init returns InitExists and leaves the file system as it
\* is; it writes the initial justfile only where no file is, and nowhere
\* else; a write that fails is returned as WriteJustfile.
C30_NeverOverwrites ==
  [][InitCalled =>
       /\ is_file(justfiles[path']) =>
            /\ returned' = Result(Error("InitExists", path'))
            /\ justfiles' = justfiles
       /\ \A dir \in Dirs \ {path'} : justfiles'[dir] = justfiles[dir]
       /\ returned'.ok =>
            /\ justfiles[path'].kind = "Absent"
            /\ justfiles'[path'] = File("File", INIT_JUSTFILE, "Ok")
       /\ ~is_file(justfiles[path']) /\ ~returned'.ok =>
            /\ returned' = Result(Error("WriteJustfile", path'))
            /\ justfiles'[path'].contents = <<>>]_vars

\* init has found a justfile of other contents and has left it.
C30_InitExists ==
  /\ Done
  /\ returned = Result(Error("InitExists", path))
  /\ justfiles[path] = File("File", <<"a", ":", NL>>, "Ok")

====
